---- MODULE Spec2Model ----
(***************************************************************************)
(* The assessment portal's test flows as a state machine.                  *)
(*                                                                         *)
(* TVET flow: Dashboard.handleGenerateTest acquires a test (generate_test, *)
(* then get_mcqs, then a merge), TestDisplay captures answers and submits  *)
(* them (get_mcqs, submit_answers, get_result_by_id).                      *)
(* ADOF flow: ADOFTestDisplay generates a test on mount, captures answers  *)
(* and submits them; ADOFDashboard.handleTestComplete moves to the report. *)
(*                                                                         *)
(* Around the test step ADOFDashboard walks through job selection          *)
(* (JobSelection), CV submission (CVCollection) and the report.            *)
(*                                                                         *)
(* Every await of a handler is a suspension point: the handler's position  *)
(* is pc, its locals are generated / requestBody / submitResponse, and the *)
(* server's answer to the awaited request is chosen by the next step.  A   *)
(* handler whose component unmounted while it was suspended keeps running: *)
(* CV submissions in flight are the records of cvInFlight, TestDisplay     *)
(* submissions whose view was left are counted by tdDetached.              *)
(*                                                                         *)
(* The api object's treatment of an HTTP response is a function of the     *)
(* response (ApiResult); ApiSpec applies it to every response of a table.  *)
(* FairSpec adds that every awaited request eventually completes.          *)
(* ReportSpec renders the skill match of ADOFReports on every pair of      *)
(* skill lists; AuthSpec is the page before a dashboard mounts: Index,     *)
(* AuthForm and the session user.                                          *)
(***************************************************************************)
EXTENDS Integers, Sequences, FiniteSets, TLC

VARIABLES
    scenario,             \* which population of server records is explored
    role,                 \* user.role: decides Dashboard or ADOFDashboard
    userId,               \* user.id, handed to the test view as userId
    testData,             \* Dashboard.generatedTest = TestDisplay.testData; ADOFTestDisplay.testData
    isGenerating,         \* Dashboard.isGenerating
    isLoadingTest,        \* ADOFTestDisplay.isLoadingTest
    selectedAnswers,      \* question index -> selected score
    currentQuestionIndex,
    isSubmitting,
    isSubmitted,          \* TestDisplay.isSubmitted
    testResult,           \* TestDisplay.testResult
    currentStep,          \* ADOFDashboard.currentStep
    testResults,          \* ADOFDashboard.testResults
    pc,                   \* the await the running handler is suspended at
    generated,            \* handleGenerateTest's local testData
    requestBody,          \* handleSubmit's local requestBody
    submitResponse,       \* handleSubmit's local submitResponse
    reqs,                 \* requests issued by the latest user action
    toasts,               \* notifications produced by the latest user action
    submittingWrites,     \* values the latest user action passed to setIsSubmitting
    lastResponse,         \* what the latest continuation received; Null after a user action
    selectedJob,          \* ADOFDashboard.selectedJob
    cvData,               \* ADOFDashboard.cvData
    jobs,                 \* JobSelection: isLoading / error / jobs
    formData,             \* CVCollection.formData
    cvSubmitting,         \* CVCollection.isSubmitting
    cvInFlight,           \* CVCollection.handleSubmit calls awaiting api.submitUserData
    tdDetached,           \* TestDisplay.handleSubmit calls still running after their view was left
    apiCall,              \* ApiSpec: the operation and the HTTP response it received
    apiOutcome,           \* ApiSpec: what the api function returned or threw
    reportProps,          \* ReportSpec: the cvData.skills and selectedJob.skills ADOFReports receives
    reportView,           \* ReportSpec: skillMatch and skillMatchPercentage of the render
    authMode,             \* Index.authMode
    authFormData,         \* AuthForm.formData
    authIsLoading,        \* AuthForm.isLoading
    user,                 \* AuthContext.user
    ctxIsLoading,         \* AuthContext.isLoading
    authPc,               \* the await AuthForm.handleSubmit is suspended at
    authLocals,           \* the mode and formData handleSubmit's closure captured
    authReqs,             \* requests issued by the latest attempt
    authToasts            \* notifications produced by the latest attempt

vars == <<scenario, role, userId, testData, isGenerating, isLoadingTest,
          selectedAnswers, currentQuestionIndex, isSubmitting, isSubmitted,
          testResult, currentStep, testResults, pc, generated, requestBody,
          submitResponse, reqs, toasts, submittingWrites, lastResponse,
          selectedJob, cvData, jobs, formData, cvSubmitting, cvInFlight,
          tdDetached, apiCall, apiOutcome, reportProps, reportView, authMode,
          authFormData, authIsLoading, user, ctxIsLoading, authPc, authLocals,
          authReqs, authToasts>>

(***************************************************************************)
(* Bounds                                                                  *)
(***************************************************************************)
MaxQuestions == 2       \* questions per test in the "answers" population
OutOfRange == 99        \* an option score outside 1..5
MaxInFlight == 2        \* submissions of one kind awaiting their requests at a time
MaxSkills == 2          \* skills in a CV and in a job of the report

(***************************************************************************)
(* JavaScript values                                                       *)
(***************************************************************************)
Undefined == "<undefined>"          \* an absent field
Null == [null |-> TRUE]             \* null state / absent object

Truthy(v) == v # Undefined /\ v # ""

\* a || b
Or(a, b) == IF Truthy(a) THEN a ELSE b

\* String.prototype.trim on the strings of the model
Trim(s) ==
    CASE s = " " -> ""
      [] s = " tla" -> "tla"
      [] OTHER -> s

IdFields == {"mcqs_id", "document_id", "documentId", "id", "_id"}

(***************************************************************************)
(* Server records                                                          *)
(***************************************************************************)
Likert == {"Strongly Disagree", "Disagree", "Neutral", "Agree", "Strongly Agree"}

OptionScores == (1..5) \cup {OutOfRange}

\* TestQuestion[]: n questions whose text is tagged with the response they
\* came in, each offering the options opts (option scores).
Questions(n, text, opts) ==
    [i \in 1..n |-> [question |-> text, question_no |-> i, options |-> opts]]

TestRecord(a, b, c, d, e, msg, qs) ==
    [mcqs_id |-> a, document_id |-> b, documentId |-> c, id |-> d, _id |-> e,
     message |-> msg, questions |-> qs]

\* The server populations explored, one per session:
\*   "ids"      every combination of the five identifier fields, one question;
\*   "scores"   one question offering every score of OptionScores;
\*   "answers"  up to MaxQuestions questions, identifier absent, blank or
\*              present, every shape of submit_answers response;
\*   "errors"   one fixed test, every failure the api object can throw;
\*   "steps"    one fixed test of two questions, two jobs, up to MaxInFlight
\*              handlers suspended at once;
\*   "forms"    one fixed test, blank, malformed and filled CV form fields.
\*   "skills"   one fixed test, skill inputs that are blank, padded or distinct.
Scenarios == {"ids", "scores", "answers", "errors", "steps", "forms", "skills"}

\* the option scores of the questions of a population
Options(sc) ==
    CASE sc = "scores" -> OptionScores
      [] sc = "answers" -> {1, 4, OutOfRange}
      [] OTHER -> {3}

\* the question counts of the generated tests of a population
QuestionCounts(sc) ==
    CASE sc = "answers" -> 0..MaxQuestions
      [] sc = "steps" -> {2}
      [] OTHER -> {1}

\* generate_test responses
GenerateTestResponses(sc) ==
    CASE sc = "ids" ->
           { TestRecord(a, b, c, d, e, "generated", Questions(1, "generated", Options(sc))) :
               a \in {Undefined, "g.mcqs_id"}, b \in {Undefined, "g.document_id"},
               c \in {Undefined, "g.documentId"}, d \in {Undefined, "g.id"},
               e \in {Undefined, "g._id"} }
      [] sc = "answers" ->
           { TestRecord(a, Undefined, Undefined, Undefined, Undefined, "generated",
                        Questions(n, "generated", Options(sc))) :
               a \in {Undefined, " ", "g.mcqs_id"}, n \in QuestionCounts(sc) }
      [] OTHER ->
           { TestRecord("g.mcqs_id", Undefined, Undefined, Undefined, Undefined,
                        "generated", Questions(n, "generated", Options(sc))) :
               n \in QuestionCounts(sc) }

\* a get_mcqs response that carries no questions list
McqsNoList(a, b, c, d, e, msg) ==
    [mcqs_id |-> a, document_id |-> b, documentId |-> c, id |-> d, _id |-> e,
     message |-> msg]

\* get_mcqs responses: the questions list may be missing or empty; an
\* identifier field may be absent, present but empty, or present.
GetMcqsResponses(sc) ==
    { McqsNoList(a, Undefined, Undefined, Undefined, Undefined, "fetched") :
        a \in {Undefined, "f.mcqs_id"} }
    \cup
    CASE sc = "ids" ->
           { TestRecord(a, b, c, d, e, "fetched", qs) :
               a \in {Undefined, "", "f.mcqs_id"}, b \in {Undefined, "", "f.document_id"},
               c \in {Undefined, "", "f.documentId"}, d \in {Undefined, "", "f.id"},
               e \in {Undefined, "", "f._id"},
               qs \in {<<>>, Questions(1, "fetched", Options(sc))} }
      [] sc = "answers" ->
           { TestRecord(a, Undefined, Undefined, Undefined, Undefined, "fetched",
                        Questions(n, "fetched", Options(sc))) :
               a \in {Undefined, "f.mcqs_id"}, n \in QuestionCounts(sc) }
      [] OTHER ->
           { TestRecord(Undefined, Undefined, Undefined, Undefined, Undefined,
                        "fetched", Questions(n, "fetched", Options(sc))) :
               n \in QuestionCounts(sc) }

ResultData(rid, pct) == [result_id |-> rid, percentage |-> pct]

\* submit_answers responses: result_id at the top level, under data, or nowhere.
SubmitAnswersResponses(sc) ==
    IF sc # "answers"
    THEN { [message |-> "submitted", result_id |-> Undefined,
            data |-> ResultData("r.data", 75)] }
    ELSE { [message |-> "submitted", result_id |-> t, data |-> d] :
             t \in {Undefined, "", "r.top"},
             d \in {Null} \cup { ResultData(r, 75) : r \in {Undefined, "", "r.data"} } }

\* get_result_by_id responses, with or without a data record.
GetResultResponses(rid) ==
    { [message |-> "result", data |-> d] : d \in {Null, ResultData(rid, 90)} }

(***************************************************************************)
(* The api object: from an HTTP response to a returned value or an error   *)
(***************************************************************************)
\* a rejected promise / a resolved one
Thrown(message) == [error |-> message]
Returned(value) == [value |-> value]

\* what JSON.parse yields: an object or array, of which the model keeps the
\* error and message fields; null; or a SyntaxError
JsonValue(error, message, isArray) == [error |-> error, message |-> message, isArray |-> isArray]
SyntaxError == [syntaxError |-> TRUE]

\* the response bodies of the model
HttpBodies ==
    { "", "Service Unavailable", "null", "[]",
      "{\"error\":\"E\"}", "{\"message\":\"M\"}", "{\"error\":\"E\",\"message\":\"M\"}",
      "{\"error\":\"\",\"message\":\"M\"}", "{\"detail\":\"D\"}" }

\* JSON.parse on the bodies of the model
JSONParse(text) ==
    CASE text = "null" -> Null
      [] text = "[]" -> JsonValue(Undefined, Undefined, TRUE)
      [] text = "{\"error\":\"E\"}" -> JsonValue("E", Undefined, FALSE)
      [] text = "{\"message\":\"M\"}" -> JsonValue(Undefined, "M", FALSE)
      [] text = "{\"error\":\"E\",\"message\":\"M\"}" -> JsonValue("E", "M", FALSE)
      [] text = "{\"error\":\"\",\"message\":\"M\"}" -> JsonValue("", "M", FALSE)
      [] text = "{\"detail\":\"D\"}" -> JsonValue(Undefined, Undefined, FALSE)
      [] OTHER -> SyntaxError

\* fetch rejected: no response at all
NetworkFailure == [failed |-> "Failed to fetch"]

\* the responses of the model: fetch resolves for every status
HttpResponses ==
    { [ok |-> TRUE, status |-> "200", statusText |-> "OK", body |-> b] : b \in HttpBodies }
    \cup
    { [ok |-> FALSE, status |-> "500", statusText |-> "Internal Server Error", body |-> b] :
        b \in HttpBodies }
    \cup {NetworkFailure}

\* response.json()
ResponseJson(http) ==
    IF JSONParse(http.body) = SyntaxError
    THEN Thrown("SyntaxError: Unexpected token in JSON")
    ELSE Returned(JSONParse(http.body))

\* signup, signin, generateTest: const error = await response.text();
\* throw new Error(error || default)
TextErrorMessage(default, responseText) == Or(responseText, default)

\* getMcqs, submitAnswers, getResultById: try { errorData = JSON.parse(responseText);
\* errorMessage = errorData.error || errorData.message || errorMessage }
\* catch { errorMessage = responseText || errorMessage }
ParsedErrorMessage(default, responseText) ==
    LET errorData == JSONParse(responseText) IN
    IF errorData = SyntaxError \/ errorData = Null
    THEN Or(responseText, default)
    ELSE Or(errorData.error, Or(errorData.message, default))

\* getJobs, submitUserData: `${prefix}: ${response.status} ${response.statusText}`
StatusErrorMessage(prefix, http) == prefix \o ": " \o http.status \o " " \o http.statusText

\* mutant: the SyntaxError of JSON.parse is not replaced
ParsedBody_json(http) == ResponseJson(http)

\* try { return JSON.parse(responseText) } catch { throw new Error('Invalid response format from server') }
ParsedBody(http) ==
    IF JSONParse(http.body) = SyntaxError
    THEN Thrown("Invalid response format from server")
    ELSE Returned(JSONParse(http.body))

api_signup(http) ==
    IF ~http.ok THEN Thrown(TextErrorMessage("Signup failed", http.body)) ELSE ResponseJson(http)

api_signin(http) ==
    IF ~http.ok THEN Thrown(TextErrorMessage("Signin failed", http.body)) ELSE ResponseJson(http)

api_generateTest(http) ==
    IF ~http.ok THEN Thrown(TextErrorMessage("Test generation failed", http.body))
    ELSE ResponseJson(http)

api_getMcqs(http) ==
    IF ~http.ok THEN Thrown(ParsedErrorMessage("Failed to get MCQs", http.body))
    ELSE ParsedBody(http)

api_submitAnswers(http) ==
    IF ~http.ok THEN Thrown(ParsedErrorMessage("Answer submission failed", http.body))
    ELSE ParsedBody(http)

api_getJobs(http) ==
    IF ~http.ok THEN Thrown(StatusErrorMessage("Failed to fetch jobs", http))
    ELSE IF "error" \in DOMAIN ResponseJson(http) THEN ResponseJson(http)
    ELSE IF ResponseJson(http).value = Null \/ ~ResponseJson(http).value.isArray
    THEN Thrown("Invalid response format: Expected an array of jobs")
    ELSE ResponseJson(http)

api_submitUserData(http) ==
    IF ~http.ok THEN Thrown(StatusErrorMessage("Failed to submit data", http))
    ELSE ResponseJson(http)

api_getResultById(http) ==
    IF ~http.ok THEN Thrown(ParsedErrorMessage("Failed to fetch result", http.body))
    ELSE ParsedBody(http)

ApiOperations ==
    { "signup", "signin", "generate_test", "get_mcqs", "submit_answers",
      "get_result_by_id", "jobs", "submit-user-data" }

\* what the api function of an operation does with a response
ApiResult(op, http) ==
    IF http = NetworkFailure THEN Thrown(NetworkFailure.failed)
    ELSE CASE op = "signup" -> api_signup(http)
           [] op = "signin" -> api_signin(http)
           [] op = "generate_test" -> api_generateTest(http)
           [] op = "get_mcqs" -> api_getMcqs(http)
           [] op = "submit_answers" -> api_submitAnswers(http)
           [] op = "get_result_by_id" -> api_getResultById(http)
           [] op = "jobs" -> api_getJobs(http)
           [] op = "submit-user-data" -> api_submitUserData(http)

\* the responses an operation fails on
FailingResponses(sc) == IF sc = "errors" THEN HttpResponses ELSE {NetworkFailure}

\* messages of the errors an api call can throw
ApiErrors(sc, op) ==
    { ApiResult(op, http).error :
        http \in { h \in FailingResponses(sc) : "error" \in DOMAIN ApiResult(op, h) } }

\* jobs: the list api.getJobs returns
Job(id, title) == [id |-> id, title |-> title]

Jobs(sc) ==
    IF sc = "steps"
    THEN <<Job("j1", "Data Analyst"), Job("j2", "UX Designer")>>
    ELSE <<Job("j1", "Data Analyst")>>

\* submit-user-data results: JSON null, or an object with or without a message
SubmitUserDataResults(sc) ==
    IF sc \in {"errors", "forms"}
    THEN {Null, [message |-> Undefined], [message |-> "saved"]}
    ELSE {[message |-> "saved"]}

\* what the user can type into a field of the CV form
FieldValues(sc, field) ==
    IF sc = "forms"
    THEN IF field = "email" THEN {"", " ", "ann", "ann@x.org"} ELSE {"", " ", "text"}
    ELSE IF field = "email" THEN {"", "ann@x.org"} ELSE {"", "text"}

\* what the user can type into the skill input
SkillInputs(sc) ==
    CASE sc = "skills" -> {"tla", " ", " tla", "sql"}
      [] sc = "forms" -> {"tla", " "}
      [] OTHER -> {"tla"}

\* handlers that can be suspended at once
InFlightLimit(sc) == IF sc = "steps" THEN MaxInFlight ELSE 1

UserIds(sc) == IF sc = "answers" THEN {"u1", " ", ""} ELSE {"u1"}

(***************************************************************************)
(* Pure functions of the handlers                                          *)
(***************************************************************************)
\* mutant: documentId probed before document_id
getDocumentId_camelFirst(t) ==
    Or(t.mcqs_id, Or(t.documentId, Or(t.document_id, Or(t.id, Or(t._id, "")))))

\* TestDisplay.getDocumentId
getDocumentId(t) ==
    Or(t.mcqs_id, Or(t.document_id, Or(t.documentId, Or(t.id, Or(t._id, "")))))

\* ADOFTestDisplay.handleSubmit: const documentId = ...
ADOF_documentId(t) ==
    Or(t.mcqs_id, Or(t.document_id, Or(t.documentId, Or(t.id, Or(t._id, "")))))

\* TestDisplay.handleSubmit: switch (score)
TD_responseText(score) ==
    CASE score = 1 -> "Strongly Disagree"
      [] score = 2 -> "Disagree"
      [] score = 3 -> "Neutral"
      [] score = 4 -> "Agree"
      [] score = 5 -> "Strongly Agree"
      [] OTHER -> "Neutral"

\* mutant: the default case yields no label
ADOF_responseText_noDefault(score) ==
    CASE score = 1 -> "Strongly Disagree"
      [] score = 2 -> "Disagree"
      [] score = 3 -> "Neutral"
      [] score = 4 -> "Agree"
      [] score = 5 -> "Strongly Agree"
      [] OTHER -> ""

\* ADOFTestDisplay.handleSubmit: switch (score)
ADOF_responseText(score) ==
    CASE score = 1 -> "Strongly Disagree"
      [] score = 2 -> "Disagree"
      [] score = 3 -> "Neutral"
      [] score = 4 -> "Agree"
      [] score = 5 -> "Strongly Agree"
      [] OTHER -> "Neutral"

\* questionNumber.toString() for parseInt(questionIndex) + 1
QuestionKey(questionIndex) == ToString(questionIndex + 1)

\* TestDisplay.handleSubmit: answersForAPI
TD_answersForAPI(answers) ==
    [k \in { QuestionKey(i) : i \in DOMAIN answers } |->
        TD_responseText(answers[CHOOSE i \in DOMAIN answers : QuestionKey(i) = k])]

\* ADOFTestDisplay.handleSubmit: answersForAPI
ADOF_answersForAPI(answers) ==
    [k \in { QuestionKey(i) : i \in DOMAIN answers } |->
        ADOF_responseText(answers[CHOOSE i \in DOMAIN answers : QuestionKey(i) = k])]

\* TestDisplay.handleSubmit: hardcodedTestRequest.answers
HardcodedLabels ==
    << "Agree", "Strongly Agree", "Neutral", "Disagree", "Strongly Agree",
       "Agree", "Strongly Agree", "Neutral", "Agree", "Disagree",
       "Strongly Agree", "Neutral", "Agree", "Disagree", "Strongly Agree",
       "Disagree", "Agree", "Disagree", "Strongly Agree", "Neutral" >>

hardcodedTestRequest(uid, docId) ==
    [user_id |-> uid, mcq_id |-> docId,
     answers |-> [k \in { ToString(i) : i \in DOMAIN HardcodedLabels } |->
                    HardcodedLabels[CHOOSE i \in DOMAIN HardcodedLabels : ToString(i) = k]]]

\* TestDisplay.handleSubmit: resultId
TD_resultId(resp) ==
    Or(resp.result_id, IF resp.data # Null THEN resp.data.result_id ELSE Undefined)

\* Dashboard.handleGenerateTest: { ...testData, ...mcqsData, mcqs_id: ... }
MergeTest(gen, mcqs) ==
    [f \in DOMAIN gen |->
        CASE f = "mcqs_id" -> Or(mcqs.mcqs_id, Or(mcqs.document_id, gen.mcqs_id))
          [] f = "questions" -> mcqs.questions
          [] OTHER -> IF mcqs[f] # Undefined THEN mcqs[f] ELSE gen[f]]

\* mutant: an empty questions list counts as questions
UseMcqs_anyList(mcqs) == "questions" \in DOMAIN mcqs

\* Dashboard.handleGenerateTest: mcqsData.questions && mcqsData.questions.length > 0
UseMcqs(mcqs) == "questions" \in DOMAIN mcqs /\ Len(mcqs.questions) > 0

AcquiredTest(gen, mcqs) == IF UseMcqs(mcqs) THEN MergeTest(gen, mcqs) ELSE gen

Request(op, body) == [op |-> op, body |-> body]
Toast(title, description) == [title |-> title, description |-> description]

(***************************************************************************)
(* Initial state: a signed-in session whose dashboard has just rendered    *)
(***************************************************************************)
\* CVCollection: useState<CVData>({ name: '', ... })
EmptyForm ==
    [name |-> "", email |-> "", phone |-> "", experience |-> "", skills |-> <<>>,
     education |-> ""]

\* JobSelection: isLoading / error / jobs; "unmounted" when another step is shown
JobsView(status, list) == [status |-> status, list |-> list]

\* the state of every component after its first render
ViewsInit ==
    /\ testData = Null
    /\ isGenerating = FALSE
    /\ isLoadingTest = FALSE
    /\ selectedAnswers = <<>>
    /\ currentQuestionIndex = 0
    /\ isSubmitting = FALSE
    /\ isSubmitted = FALSE
    /\ testResult = Null
    /\ currentStep = "jobs"
    /\ testResults = Null
    /\ pc = "idle"
    /\ generated = Null
    /\ requestBody = Null
    /\ submitResponse = Null
    /\ reqs = <<>>
    /\ toasts = <<>>
    /\ submittingWrites = <<>>
    /\ lastResponse = Null
    /\ selectedJob = Null
    /\ cvData = Null
    /\ jobs = JobsView(IF role = "ADOF" THEN "loading" ELSE "unmounted", <<>>)
    /\ formData = EmptyForm
    /\ cvSubmitting = FALSE
    /\ cvInFlight = {}
    /\ tdDetached = 0

\* a signed-in session of either role
FlowInit ==
    /\ scenario \in Scenarios
    /\ role \in {"TVET", "ADOF"}
    /\ userId \in UserIds(scenario)
    /\ ViewsInit

\* AuthForm: useState({ name: '', email: '', password: '', role: '' })
EmptyAuthForm == [name |-> "", email |-> "", password |-> "", role |-> ""]

\* the user record of the session
User(id, name, email, userRole) == [id |-> id, name |-> name, email |-> email, role |-> userRole]

\* AuthForm as it mounts, no attempt running
AuthFormInit ==
    /\ authFormData = EmptyAuthForm
    /\ authIsLoading = FALSE
    /\ authPc = "idle"
    /\ authLocals = Null
    /\ authReqs = <<>>
    /\ authToasts = <<>>

Init ==
    /\ FlowInit
    /\ apiCall = Null
    /\ apiOutcome = Null
    /\ reportProps = Null
    /\ reportView = Null
    /\ AuthFormInit
    /\ authMode = "signin"
    /\ user = User(userId, "Ann", "ann@x.org", role)
    /\ ctxIsLoading = FALSE

(***************************************************************************)
(* What is on screen                                                       *)
(***************************************************************************)
\* testData.questions.length
QuestionCount == Len(testData.questions)

\* Object.keys(selectedAnswers).length
AnsweredCount == Cardinality(DOMAIN selectedAnswers)

\* mutant: only an empty answer map is rejected
TD_incomplete_onlyEmpty == AnsweredCount = 0

\* TestDisplay.handleSubmit: Object.keys(selectedAnswers).length !== testData.questions.length
TD_incomplete == AnsweredCount # QuestionCount

\* ADOFTestDisplay.handleSubmit: the same check
ADOF_incomplete == AnsweredCount # QuestionCount

\* Dashboard renders TestDisplay: generatedTest set and user.id truthy
TD_mounted == role = "TVET" /\ testData # Null /\ Truthy(userId)

\* TestDisplay renders TestResults, which reads result.data
TD_resultsView == TD_mounted /\ isSubmitted /\ testResult # Null

\* TestDisplay renders the current question, testData.questions[currentQuestionIndex]
TD_questionView ==
    /\ TD_mounted
    /\ ~TD_resultsView
    /\ currentQuestionIndex < QuestionCount

\* TestDisplay renders the navigation row
TD_navigation == TD_questionView /\ ~isSubmitted /\ ~isSubmitting

\* a "Back to Dashboard" button is on screen: in the question view, or in
\* TestResults once it rendered result.data
TD_backButton == TD_questionView \/ (TD_resultsView /\ testResult.data # Null)

\* the options of the question on screen
CurrentOptions == testData.questions[currentQuestionIndex + 1].options

\* mutant: the previous answers are not spread into the new map
SetAnswer_withoutPrev(answers, questionIndex, optionScore) ==
    [i \in {questionIndex} |-> optionScore]

\* setSelectedAnswers(prev => ({ ...prev, [questionIndex]: optionScore }))
SetAnswer(answers, questionIndex, optionScore) ==
    [i \in DOMAIN answers \cup {questionIndex} |->
        IF i = questionIndex THEN optionScore ELSE answers[i]]

(***************************************************************************)
(* Dashboard.handleGenerateTest                                            *)
(***************************************************************************)
adofSteps == <<selectedJob, cvData, jobs, formData, cvSubmitting, cvInFlight>>
apiVars == <<apiCall, apiOutcome>>
authVars == <<authMode, authFormData, authIsLoading, user, ctxIsLoading, authPc,
              authLocals, authReqs, authToasts>>
sideVars == <<apiVars, reportProps, reportView, authVars>>
TD_state == <<selectedAnswers, currentQuestionIndex, isSubmitting, isSubmitted, testResult>>
ADOF_state == <<isLoadingTest, currentStep, testResults>>
session == <<scenario, role, userId>>
submitLocals == <<requestBody, submitResponse>>

Dashboard_handleGenerateTest ==
    /\ role = "TVET"
    /\ testData = Null
    /\ ~isGenerating
    /\ isGenerating' = TRUE
    /\ reqs' = <<Request("generate_test", [user_id |-> userId])>>
    /\ toasts' = <<>>
    /\ submittingWrites' = <<>>
    /\ pc' = "generate"
    /\ UNCHANGED <<session, sideVars, adofSteps, tdDetached, testData, TD_state, ADOF_state, generated, submitLocals>>
    /\ lastResponse' = Null

Dashboard_generateTestReturns ==
    /\ pc = "generate"
    /\ \E response \in GenerateTestResponses(scenario) :
          generated' = response /\ lastResponse' = response
    /\ reqs' = Append(reqs, Request("get_mcqs", [user_id |-> userId]))
    /\ pc' = "getMcqs"
    /\ UNCHANGED <<session, sideVars, adofSteps, tdDetached, testData, isGenerating, TD_state, ADOF_state,
                   submitLocals, toasts, submittingWrites>>

Dashboard_generateTestThrows ==
    /\ pc = "generate"
    /\ \E error \in ApiErrors(scenario, "generate_test") :
          /\ toasts' = Append(toasts, Toast("Error", error))
          /\ lastResponse' = Thrown(error)
    /\ isGenerating' = FALSE
    /\ pc' = "idle"
    /\ UNCHANGED <<session, sideVars, adofSteps, tdDetached, testData, TD_state, ADOF_state, generated,
                   submitLocals, reqs, submittingWrites>>

Dashboard_getMcqsReturns ==
    /\ pc = "getMcqs"
    /\ \E mcqsData \in GetMcqsResponses(scenario) :
          /\ testData' = AcquiredTest(generated, mcqsData)
          /\ lastResponse' = mcqsData
    /\ toasts' = Append(toasts, Toast("Test Generated Successfully!",
                                      "Your personalized test is ready."))
    /\ isGenerating' = FALSE
    /\ generated' = Null
    /\ pc' = "idle"
    /\ UNCHANGED <<session, sideVars, adofSteps, tdDetached, TD_state, ADOF_state, submitLocals, reqs, submittingWrites>>

Dashboard_getMcqsThrows ==
    /\ pc = "getMcqs"
    /\ \E mcqError \in ApiErrors(scenario, "get_mcqs") : lastResponse' = Thrown(mcqError)
    /\ testData' = generated
    /\ toasts' = Append(toasts, Toast("Test Generated Successfully!",
                                      "Your personalized test is ready."))
    /\ isGenerating' = FALSE
    /\ generated' = Null
    /\ pc' = "idle"
    /\ UNCHANGED <<session, sideVars, adofSteps, tdDetached, TD_state, ADOF_state, submitLocals, reqs, submittingWrites>>

\* Dashboard.handleNewTest, reached from the question view and from the
\* results view; TestDisplay unmounts and its state is discarded.  A
\* handleSubmit suspended at an await keeps running without its view.
Dashboard_handleNewTest ==
    /\ TD_backButton
    /\ IF pc = "idle"
       THEN UNCHANGED <<pc, submitLocals, tdDetached>>
       ELSE /\ tdDetached < InFlightLimit(scenario) - 1
            /\ tdDetached' = tdDetached + 1
            /\ pc' = "idle"
            /\ requestBody' = Null
            /\ submitResponse' = Null
    /\ testData' = Null
    /\ selectedAnswers' = <<>>
    /\ currentQuestionIndex' = 0
    /\ isSubmitting' = FALSE
    /\ isSubmitted' = FALSE
    /\ testResult' = Null
    /\ UNCHANGED <<session, sideVars, adofSteps, isGenerating, ADOF_state, generated,
                   reqs, toasts, submittingWrites>>
    /\ lastResponse' = Null

\* a handleSubmit whose view was left ran to its end: its remaining requests
\* completed and its state updates went to the unmounted component
TD_detachedSettles ==
    /\ tdDetached > 0
    /\ tdDetached' = tdDetached - 1
    /\ UNCHANGED <<session, sideVars, adofSteps, testData, isGenerating, TD_state,
                   ADOF_state, pc, generated, submitLocals, reqs, toasts,
                   submittingWrites, lastResponse>>

(***************************************************************************)
(* TestDisplay                                                             *)
(***************************************************************************)
TD_handleAnswerSelect ==
    /\ TD_questionView
    /\ ~isSubmitted
    /\ \E optionScore \in CurrentOptions :
          selectedAnswers' = SetAnswer(selectedAnswers, currentQuestionIndex, optionScore)
    /\ UNCHANGED <<session, sideVars, adofSteps, tdDetached, testData, isGenerating, currentQuestionIndex, isSubmitting,
                   isSubmitted, testResult, ADOF_state, pc, generated, submitLocals,
                   reqs, toasts, submittingWrites>>
    /\ lastResponse' = Null

TD_handleNext ==
    /\ TD_navigation
    /\ currentQuestionIndex < QuestionCount - 1
    /\ currentQuestionIndex' = currentQuestionIndex + 1
    /\ UNCHANGED <<session, sideVars, adofSteps, tdDetached, testData, isGenerating, selectedAnswers, isSubmitting,
                   isSubmitted, testResult, ADOF_state, pc, generated, submitLocals,
                   reqs, toasts, submittingWrites>>
    /\ lastResponse' = Null

TD_handlePrevious ==
    /\ TD_navigation
    /\ currentQuestionIndex > 0
    /\ currentQuestionIndex' = currentQuestionIndex - 1
    /\ UNCHANGED <<session, sideVars, adofSteps, tdDetached, testData, isGenerating, selectedAnswers, isSubmitting,
                   isSubmitted, testResult, ADOF_state, pc, generated, submitLocals,
                   reqs, toasts, submittingWrites>>
    /\ lastResponse' = Null

\* mutant: the document id check is missing
TD_validationError_noDocumentId ==
    IF ~Truthy(userId) \/ Trim(userId) = ""
    THEN "User ID is required. Please log in again."
    ELSE ""

\* the error handleSubmit throws before its first await, or "" when it throws none
TD_validationError ==
    IF ~Truthy(userId) \/ Trim(userId) = ""
    THEN "User ID is required. Please log in again."
    ELSE IF ~Truthy(getDocumentId(testData)) \/ Trim(getDocumentId(testData)) = ""
    THEN "Test document ID is required. Please generate a new test."
    ELSE IF DOMAIN TD_answersForAPI(selectedAnswers) = {}
    THEN "No answers provided. Please answer all questions."
    ELSE IF \E k \in DOMAIN TD_answersForAPI(selectedAnswers) :
                TD_answersForAPI(selectedAnswers)[k] \notin Likert
    THEN "Invalid answers detected"
    ELSE ""

\* TestDisplay.handleSubmit up to its first await (api.getMcqs)
TD_handleSubmit ==
    /\ TD_navigation
    /\ ~(currentQuestionIndex < QuestionCount - 1)
    /\ IF TD_incomplete
       THEN /\ toasts' = <<Toast("Incomplete Test",
                                 "Please answer all questions before submitting.")>>
            /\ reqs' = <<>>
            /\ submittingWrites' = <<>>
            /\ UNCHANGED <<isSubmitting, testResult, pc, requestBody>>
       ELSE IF TD_validationError # ""
       THEN /\ toasts' = <<Toast("Submission Failed", TD_validationError)>>
            /\ reqs' = <<>>
            /\ submittingWrites' = <<TRUE, FALSE>>
            /\ isSubmitting' = FALSE
            /\ testResult' = Null
            /\ UNCHANGED <<pc, requestBody>>
       ELSE /\ requestBody' = [user_id |-> userId,
                               mcq_id |-> getDocumentId(testData),
                               answers |-> TD_answersForAPI(selectedAnswers)]
            /\ reqs' = <<Request("get_mcqs", [user_id |-> userId])>>
            /\ toasts' = <<>>
            /\ submittingWrites' = <<TRUE>>
            /\ isSubmitting' = TRUE
            /\ testResult' = Null
            /\ pc' = "submit.getMcqs"
    /\ UNCHANGED <<session, sideVars, adofSteps, tdDetached, testData, isGenerating, selectedAnswers, currentQuestionIndex,
                   isSubmitted, ADOF_state, generated, submitResponse>>
    /\ lastResponse' = Null

\* api.getMcqs settled; its outcome is only logged.  First submit_answers attempt.
TD_getMcqsSettles ==
    /\ pc = "submit.getMcqs"
    /\ reqs' = Append(reqs, Request("submit_answers", requestBody))
    /\ pc' = "submit.first"
    /\ lastResponse' = Null
    /\ UNCHANGED <<session, sideVars, adofSteps, tdDetached, testData, isGenerating, TD_state, ADOF_state, generated,
                   submitLocals, toasts, submittingWrites>>

\* the percentage of the success toast
TD_percentage(resp) ==
    IF resp.data # Null THEN ToString(resp.data.percentage) ELSE "N/A"

\* setTestResult(result); setIsSubmitted(true); toast; finally setIsSubmitting(false)
TD_finish(resp, result) ==
    /\ testResult' = result
    /\ isSubmitted' = TRUE
    /\ toasts' = Append(toasts, Toast("Test Submitted Successfully!", TD_percentage(resp)))
    /\ isSubmitting' = FALSE
    /\ submittingWrites' = Append(submittingWrites, FALSE)
    /\ requestBody' = Null
    /\ submitResponse' = Null
    /\ pc' = "idle"
    /\ UNCHANGED reqs

\* a submit_answers attempt returned resp: fetch the detailed result when
\* the response names one
TD_afterSubmit(resp) ==
    /\ IF Truthy(TD_resultId(resp))
       THEN /\ submitResponse' = resp
            /\ reqs' = Append(reqs, Request("get_result_by_id",
                                            [result_id |-> TD_resultId(resp)]))
            /\ pc' = "submit.getResult"
            /\ UNCHANGED <<requestBody, testResult, isSubmitted, isSubmitting,
                           toasts, submittingWrites>>
       ELSE TD_finish(resp, resp)
    /\ lastResponse' = resp
    /\ UNCHANGED <<session, sideVars, adofSteps, tdDetached, testData, isGenerating, selectedAnswers, currentQuestionIndex,
                   ADOF_state, generated>>

TD_submitAnswersReturns ==
    /\ pc = "submit.first"
    /\ \E resp \in SubmitAnswersResponses(scenario) : TD_afterSubmit(resp)

\* the first attempt threw: the handler submits hardcodedTestRequest
TD_submitAnswersThrows ==
    /\ pc = "submit.first"
    /\ reqs' = Append(reqs, Request("submit_answers",
                                    hardcodedTestRequest(userId, getDocumentId(testData))))
    /\ pc' = "submit.hardcoded"
    /\ \E error \in ApiErrors(scenario, "submit_answers") : lastResponse' = Thrown(error)
    /\ UNCHANGED <<session, sideVars, adofSteps, tdDetached, testData, isGenerating, TD_state, ADOF_state, generated,
                   submitLocals, toasts, submittingWrites>>

TD_hardcodedReturns ==
    /\ pc = "submit.hardcoded"
    /\ \E resp \in SubmitAnswersResponses(scenario) : TD_afterSubmit(resp)

\* mutant: the handler has no finally block
TD_fail_noFinally(message) ==
    /\ toasts' = Append(toasts, Toast("Submission Failed", message))
    /\ requestBody' = Null
    /\ submitResponse' = Null
    /\ pc' = "idle"
    /\ lastResponse' = Thrown(message)
    /\ UNCHANGED <<session, sideVars, adofSteps, tdDetached, testData, isGenerating,
                   selectedAnswers, currentQuestionIndex, isSubmitting, isSubmitted,
                   testResult, ADOF_state, generated, reqs, submittingWrites>>

\* catch (error) { toast } finally { setIsSubmitting(false) }
TD_fail(message) ==
    /\ toasts' = Append(toasts, Toast("Submission Failed", message))
    /\ isSubmitting' = FALSE
    /\ submittingWrites' = Append(submittingWrites, FALSE)
    /\ requestBody' = Null
    /\ submitResponse' = Null
    /\ pc' = "idle"
    /\ lastResponse' = Thrown(message)
    /\ UNCHANGED <<session, sideVars, adofSteps, tdDetached, testData, isGenerating, selectedAnswers, currentQuestionIndex,
                   isSubmitted, testResult, ADOF_state, generated, reqs>>

TD_hardcodedThrows ==
    /\ pc = "submit.hardcoded"
    /\ \E hardcodedError \in ApiErrors(scenario, "submit_answers") : TD_fail(hardcodedError)

TD_getResultReturns ==
    /\ pc = "submit.getResult"
    /\ \E detailedResult \in GetResultResponses(TD_resultId(submitResponse)) :
          /\ TD_finish(submitResponse,
                       IF detailedResult.data # Null THEN detailedResult ELSE submitResponse)
          /\ lastResponse' = detailedResult
    /\ UNCHANGED <<session, sideVars, adofSteps, tdDetached, testData, isGenerating, selectedAnswers, currentQuestionIndex,
                   ADOF_state, generated>>

TD_getResultThrows ==
    /\ pc = "submit.getResult"
    /\ TD_finish(submitResponse, submitResponse)
    /\ \E error \in ApiErrors(scenario, "get_result_by_id") : lastResponse' = Thrown(error)
    /\ UNCHANGED <<session, sideVars, adofSteps, tdDetached, testData, isGenerating, selectedAnswers, currentQuestionIndex,
                   ADOF_state, generated>>

(***************************************************************************)
(* ADOFTestDisplay                                                         *)
(***************************************************************************)
\* ADOFDashboard renders ADOFTestDisplay
ADOF_mounted == role = "ADOF" /\ currentStep = "test"

\* ADOFTestDisplay renders the test: the header reads selectedJob.title and
\* cvData.name; the question card, which reads
\* testData.questions[currentQuestionIndex], is rendered unless isSubmitting
ADOF_testView ==
    /\ ADOF_mounted
    /\ ~isLoadingTest
    /\ testData # Null
    /\ selectedJob # Null
    /\ cvData # Null
    /\ (isSubmitting \/ currentQuestionIndex < QuestionCount)

ADOF_navigation == ADOF_testView /\ ~isSubmitting

TVET_state == <<isGenerating, isSubmitted, testResult, generated>>

\* ADOFTestDisplay.generateTest up to its await, after the notifications
\* shown and the requests sent so far
ADOF_generateTestStarts(shown, sent) ==
    IF ~Truthy(userId)
    THEN /\ toasts' = Append(shown, Toast("Error", "User ID is required to generate test."))
         /\ reqs' = sent
         /\ UNCHANGED <<isLoadingTest, pc>>
    ELSE /\ isLoadingTest' = TRUE
         /\ reqs' = Append(sent, Request("generate_test", [user_id |-> userId]))
         /\ toasts' = shown
         /\ pc' = "adof.generate"

\* ADOFTestDisplay.generateTest run by "Try Again"
ADOF_generateTest ==
    /\ ADOF_mounted
    /\ testData = Null
    /\ ~isLoadingTest
    /\ submittingWrites' = <<>>
    /\ ADOF_generateTestStarts(<<>>, <<>>)
    /\ UNCHANGED <<session, sideVars, adofSteps, tdDetached, testData, TVET_state, selectedAnswers, currentQuestionIndex,
                   isSubmitting, currentStep, testResults, submitLocals>>
    /\ lastResponse' = Null

ADOF_generateTestReturns ==
    /\ pc = "adof.generate"
    /\ \E response \in GenerateTestResponses(scenario) :
          testData' = response /\ lastResponse' = response
    /\ toasts' = Append(toasts, Toast("Test Generated",
                                      "Your personalized assessment is ready."))
    /\ isLoadingTest' = FALSE
    /\ pc' = "idle"
    /\ UNCHANGED <<session, sideVars, adofSteps, tdDetached, TVET_state, selectedAnswers, currentQuestionIndex,
                   isSubmitting, currentStep, testResults, submitLocals, reqs,
                   submittingWrites>>

ADOF_generateTestThrows ==
    /\ pc = "adof.generate"
    /\ \E error \in ApiErrors(scenario, "generate_test") :
          /\ toasts' = Append(toasts, Toast("Test Generation Failed", error))
          /\ lastResponse' = Thrown(error)
    /\ isLoadingTest' = FALSE
    /\ pc' = "idle"
    /\ UNCHANGED <<session, sideVars, adofSteps, tdDetached, testData, TVET_state, selectedAnswers, currentQuestionIndex,
                   isSubmitting, currentStep, testResults, submitLocals, reqs,
                   submittingWrites>>

ADOF_handleAnswerSelect ==
    /\ ADOF_navigation
    /\ \E optionScore \in CurrentOptions :
          selectedAnswers' = SetAnswer(selectedAnswers, currentQuestionIndex, optionScore)
    /\ UNCHANGED <<session, sideVars, adofSteps, tdDetached, testData, TVET_state, ADOF_state, currentQuestionIndex,
                   isSubmitting, pc, submitLocals, reqs, toasts, submittingWrites>>
    /\ lastResponse' = Null

ADOF_handleNext ==
    /\ ADOF_navigation
    /\ currentQuestionIndex < QuestionCount - 1
    /\ currentQuestionIndex' = currentQuestionIndex + 1
    /\ UNCHANGED <<session, sideVars, adofSteps, tdDetached, testData, TVET_state, ADOF_state, selectedAnswers,
                   isSubmitting, pc, submitLocals, reqs, toasts, submittingWrites>>
    /\ lastResponse' = Null

ADOF_handlePrevious ==
    /\ ADOF_navigation
    /\ currentQuestionIndex > 0
    /\ currentQuestionIndex' = currentQuestionIndex - 1
    /\ UNCHANGED <<session, sideVars, adofSteps, tdDetached, testData, TVET_state, ADOF_state, selectedAnswers,
                   isSubmitting, pc, submitLocals, reqs, toasts, submittingWrites>>
    /\ lastResponse' = Null

\* ADOFTestDisplay.handleSubmit up to its first await (api.submitAnswers)
ADOF_handleSubmit ==
    /\ ADOF_navigation
    /\ ~(currentQuestionIndex < QuestionCount - 1)
    /\ IF ADOF_incomplete
       THEN /\ toasts' = <<Toast("Incomplete Test",
                                 "Please answer all questions before submitting.")>>
            /\ reqs' = <<>>
            /\ submittingWrites' = <<>>
            /\ UNCHANGED <<isSubmitting, pc, requestBody>>
       ELSE IF ~Truthy(ADOF_documentId(testData))
       THEN /\ toasts' = <<Toast("Submission Failed",
                                 "Test document ID is missing. Please generate a new test.")>>
            /\ reqs' = <<>>
            /\ submittingWrites' = <<TRUE, FALSE>>
            /\ isSubmitting' = FALSE
            /\ UNCHANGED <<pc, requestBody>>
       ELSE /\ requestBody' = [user_id |-> userId,
                               mcq_id |-> ADOF_documentId(testData),
                               answers |-> ADOF_answersForAPI(selectedAnswers)]
            /\ reqs' = <<Request("submit_answers", requestBody')>>
            /\ toasts' = <<>>
            /\ submittingWrites' = <<TRUE>>
            /\ isSubmitting' = TRUE
            /\ pc' = "adof.submit"
    /\ UNCHANGED <<session, sideVars, adofSteps, tdDetached, testData, TVET_state, ADOF_state, selectedAnswers,
                   currentQuestionIndex, submitResponse>>
    /\ lastResponse' = Null

\* catch (error) { toast } finally { setIsSubmitting(false) }
ADOF_fail(message, received) ==
    /\ toasts' = Append(toasts, Toast("Submission Failed", message))
    /\ isSubmitting' = FALSE
    /\ submittingWrites' = Append(submittingWrites, FALSE)
    /\ requestBody' = Null
    /\ submitResponse' = Null
    /\ pc' = "idle"
    /\ lastResponse' = received
    /\ UNCHANGED <<session, sideVars, adofSteps, tdDetached, testData, TVET_state, ADOF_state, selectedAnswers,
                   currentQuestionIndex, reqs>>

\* reading a property of an undefined object
TypeError == "TypeError: Cannot read properties of undefined"

\* api.submitAnswers returned: api.getResultById(submitResponse.data.result_id)
ADOF_submitAnswersReturns ==
    /\ pc = "adof.submit"
    /\ \E resp \in SubmitAnswersResponses(scenario) :
          IF resp.data = Null
          THEN ADOF_fail(TypeError, resp)
          ELSE /\ submitResponse' = resp
               /\ lastResponse' = resp
               /\ reqs' = Append(reqs, Request("get_result_by_id",
                                               [result_id |-> resp.data.result_id]))
               /\ pc' = "adof.getResult"
               /\ UNCHANGED <<session, sideVars, adofSteps, tdDetached, testData, TVET_state, ADOF_state, selectedAnswers,
                              currentQuestionIndex, isSubmitting, requestBody, toasts,
                              submittingWrites>>

ADOF_submitAnswersThrows ==
    /\ pc = "adof.submit"
    /\ \E error \in ApiErrors(scenario, "submit_answers") : ADOF_fail(error, Thrown(error))

\* api.getResultById returned: toast, onTestComplete(resultResponse), which is
\* ADOFDashboard.handleTestComplete; the report replaces the test view, whose
\* state is discarded
ADOF_getResultReturns ==
    /\ pc = "adof.getResult"
    /\ \E resultResponse \in GetResultResponses(submitResponse.data.result_id) :
          IF resultResponse.data = Null
          THEN ADOF_fail(TypeError, resultResponse)
          ELSE /\ lastResponse' = resultResponse
               /\ toasts' = Append(toasts, Toast("Assessment Completed!",
                                       ToString(resultResponse.data.percentage)))
               /\ testResults' = resultResponse
               /\ currentStep' = "report"
               /\ isSubmitting' = FALSE
               /\ submittingWrites' = Append(submittingWrites, FALSE)
               /\ requestBody' = Null
               /\ submitResponse' = Null
               /\ pc' = "idle"
               /\ testData' = Null
               /\ selectedAnswers' = <<>>
               /\ currentQuestionIndex' = 0
               /\ UNCHANGED <<session, sideVars, adofSteps, tdDetached, TVET_state,
                              isLoadingTest, reqs>>

ADOF_getResultThrows ==
    /\ pc = "adof.getResult"
    /\ \E error \in ApiErrors(scenario, "get_result_by_id") : ADOF_fail(error, Thrown(error))

(***************************************************************************)
(* ADOFDashboard: job selection, CV submission, report                     *)
(***************************************************************************)
testView == <<testData, selectedAnswers, currentQuestionIndex, isSubmitting, isLoadingTest>>
notices == <<reqs, toasts, submittingWrites>>

\* JobSelection's mount effect and its Retry button: api.getJobs returned
Jobs_fetchReturns ==
    /\ role = "ADOF"
    /\ currentStep = "jobs"
    /\ jobs.status \in {"loading", "retrying"}
    /\ jobs' = JobsView("loaded", Jobs(scenario))
    /\ lastResponse' = [jobs |-> Jobs(scenario)]
    /\ UNCHANGED <<session, sideVars, tdDetached, testView, TVET_state, currentStep,
                   testResults, pc, submitLocals, notices, selectedJob, cvData,
                   formData, cvSubmitting, cvInFlight>>

\* api.getJobs threw: the effect keeps error.message and shows a toast, the
\* Retry handler sets its own message and shows none
Jobs_fetchThrows ==
    /\ role = "ADOF"
    /\ currentStep = "jobs"
    /\ jobs.status \in {"loading", "retrying"}
    /\ \E error \in ApiErrors(scenario, "jobs") :
          /\ lastResponse' = Thrown(error)
          /\ toasts' = IF jobs.status = "loading"
                       THEN Append(toasts, Toast("Error", error))
                       ELSE toasts
    /\ jobs' = JobsView("error", <<>>)
    /\ UNCHANGED <<session, sideVars, tdDetached, testView, TVET_state, currentStep,
                   testResults, pc, submitLocals, reqs, submittingWrites, selectedJob,
                   cvData, formData, cvSubmitting, cvInFlight>>

\* the Retry button of JobSelection's error view
Jobs_retry ==
    /\ role = "ADOF"
    /\ currentStep = "jobs"
    /\ jobs.status = "error"
    /\ jobs' = JobsView("retrying", <<>>)
    /\ reqs' = <<Request("jobs", Null)>>
    /\ toasts' = <<>>
    /\ submittingWrites' = <<>>
    /\ lastResponse' = Null
    /\ UNCHANGED <<session, sideVars, tdDetached, testView, TVET_state, currentStep,
                   testResults, pc, submitLocals, selectedJob, cvData, formData,
                   cvSubmitting, cvInFlight>>

\* a job card is clicked: ADOFDashboard.handleJobSelect; CVCollection mounts
ADOF_handleJobSelect ==
    /\ role = "ADOF"
    /\ currentStep = "jobs"
    /\ jobs.status = "loaded"
    /\ \E i \in DOMAIN jobs.list : selectedJob' = jobs.list[i]
    /\ currentStep' = "cv"
    /\ jobs' = JobsView("unmounted", <<>>)
    /\ formData' = EmptyForm
    /\ cvSubmitting' = FALSE
    /\ reqs' = <<>>
    /\ toasts' = <<>>
    /\ submittingWrites' = <<>>
    /\ lastResponse' = Null
    /\ UNCHANGED <<session, sideVars, tdDetached, testView, TVET_state, testResults, pc,
                   submitLocals, cvData, cvInFlight>>

\* CVCollection is rendered: its header reads selectedJob.title
CV_mounted == role = "ADOF" /\ currentStep = "cv" /\ selectedJob # Null

\* a render threw (selectedJob.title or cvData.name of null): without an error
\* boundary React unmounts the whole tree
ADOF_crashed ==
    /\ role = "ADOF"
    /\ \/ currentStep = "cv" /\ selectedJob = Null
       \/ /\ currentStep = "test"
          /\ ~isLoadingTest
          /\ testData # Null
          /\ selectedJob = Null \/ cvData = Null
       \/ currentStep = "report" /\ (selectedJob = Null \/ cvData = Null)

\* CVCollection.handleInputChange
CV_handleInputChange ==
    /\ CV_mounted
    /\ \E field \in {"name", "email", "phone", "experience", "education"} :
          \E value \in FieldValues(scenario, field) :
              /\ value # formData[field]
              /\ formData' = [formData EXCEPT ![field] = value]
    /\ reqs' = <<>>
    /\ toasts' = <<>>
    /\ submittingWrites' = <<>>
    /\ lastResponse' = Null
    /\ UNCHANGED <<session, sideVars, tdDetached, testView, TVET_state, currentStep,
                   testResults, pc, submitLocals, selectedJob, cvData, jobs,
                   cvSubmitting, cvInFlight>>

\* formData.skills.includes(skill)
Includes(skills, skill) == \E i \in DOMAIN skills : skills[i] = skill

\* mutant: the duplicate check looks for the untrimmed text
handleAddSkill_untrimmedCheck(skills, newSkill) ==
    IF Trim(newSkill) # "" /\ ~Includes(skills, newSkill)
    THEN Append(skills, Trim(newSkill))
    ELSE skills

\* the skill list after CVCollection.handleAddSkill
handleAddSkill(skills, newSkill) ==
    IF Trim(newSkill) # "" /\ ~Includes(skills, Trim(newSkill))
    THEN Append(skills, Trim(newSkill))
    ELSE skills

\* the skill list after CVCollection.handleRemoveSkill
handleRemoveSkill(skills, skillToRemove) ==
    SelectSeq(skills, LAMBDA skill : skill # skillToRemove)

\* CVCollection.handleAddSkill, on the text typed into the skill input
CV_handleAddSkill ==
    /\ CV_mounted
    /\ \E newSkill \in SkillInputs(scenario) :
          /\ handleAddSkill(formData.skills, newSkill) # formData.skills
          /\ formData' = [formData EXCEPT !.skills = handleAddSkill(@, newSkill)]
    /\ reqs' = <<>>
    /\ toasts' = <<>>
    /\ submittingWrites' = <<>>
    /\ lastResponse' = Null
    /\ UNCHANGED <<session, sideVars, tdDetached, testView, TVET_state, currentStep,
                   testResults, pc, submitLocals, selectedJob, cvData, jobs,
                   cvSubmitting, cvInFlight>>

\* CVCollection.handleRemoveSkill
CV_handleRemoveSkill ==
    /\ CV_mounted
    /\ \E i \in DOMAIN formData.skills :
          formData' = [formData EXCEPT !.skills = handleRemoveSkill(@, formData.skills[i])]
    /\ reqs' = <<>>
    /\ toasts' = <<>>
    /\ submittingWrites' = <<>>
    /\ lastResponse' = Null
    /\ UNCHANGED <<session, sideVars, tdDetached, testView, TVET_state, currentStep,
                   testResults, pc, submitLocals, selectedJob, cvData, jobs,
                   cvSubmitting, cvInFlight>>

\* formData.email.includes('@'), on the texts of FieldValues
IncludesAt(text) == text \in {"ann@x.org"}

\* mutant: the email is only required to be non-blank
CV_validation_anyEmail(form) ==
    IF Trim(form.name) = ""
    THEN Toast("Name Required", "Please enter your full name.")
    ELSE IF Trim(form.email) = ""
    THEN Toast("Valid Email Required", "Please enter a valid email address.")
    ELSE IF Trim(form.phone) = ""
    THEN Toast("Phone Required", "Please enter your phone number.")
    ELSE IF Trim(form.experience) = ""
    THEN Toast("Experience Required", "Please describe your work experience.")
    ELSE IF Len(form.skills) = 0
    THEN Toast("Skills Required", "Please add at least one skill.")
    ELSE IF Trim(form.education) = ""
    THEN Toast("Education Required", "Please describe your educational background.")
    ELSE Null

\* the toast of the first validation of handleSubmit that fails; Null when
\* the form passes
CV_validation(form) ==
    IF Trim(form.name) = ""
    THEN Toast("Name Required", "Please enter your full name.")
    ELSE IF Trim(form.email) = "" \/ ~IncludesAt(form.email)
    THEN Toast("Valid Email Required", "Please enter a valid email address.")
    ELSE IF Trim(form.phone) = ""
    THEN Toast("Phone Required", "Please enter your phone number.")
    ELSE IF Trim(form.experience) = ""
    THEN Toast("Experience Required", "Please describe your work experience.")
    ELSE IF Len(form.skills) = 0
    THEN Toast("Skills Required", "Please add at least one skill.")
    ELSE IF Trim(form.education) = ""
    THEN Toast("Education Required", "Please describe your educational background.")
    ELSE Null

\* the fields handleSubmit appends to the FormData it sends
CV_formDataToSend(form, job) ==
    [name |-> form.name, email |-> form.email, phone |-> form.phone,
     experience |-> form.experience, education |-> form.education,
     skills |-> form.skills, jobId |-> job.id, jobTitle |-> job.title]

\* a handleSubmit call suspended at await api.submitUserData: the formData
\* and selectedJob of its render, and whether its CVCollection is mounted
CV_call(form, job, mounted) == [form |-> form, job |-> job, mounted |-> mounted]

\* the calls in flight once CVCollection unmounted
CV_unmounted(calls) == { CV_call(c.form, c.job, FALSE) : c \in calls }

\* CVCollection.handleSubmit up to its await
CV_handleSubmit ==
    /\ CV_mounted
    /\ ~cvSubmitting
    /\ IF CV_validation(formData) # Null
       THEN /\ toasts' = <<CV_validation(formData)>>
            /\ reqs' = <<>>
            /\ UNCHANGED <<cvSubmitting, cvInFlight>>
       ELSE /\ Cardinality(cvInFlight) < InFlightLimit(scenario)
            /\ cvSubmitting' = TRUE
            /\ cvInFlight' = cvInFlight \cup {CV_call(formData, selectedJob, TRUE)}
            /\ reqs' = <<Request("submit-user-data",
                                 CV_formDataToSend(formData, selectedJob))>>
            /\ toasts' = <<>>
    /\ submittingWrites' = <<>>
    /\ lastResponse' = Null
    /\ UNCHANGED <<session, sideVars, tdDetached, testView, TVET_state, currentStep,
                   testResults, pc, submitLocals, selectedJob, cvData, jobs, formData>>

\* result.message of a null result
NullTypeError == "TypeError: Cannot read properties of null"

\* catch (error) { toast } finally { setIsSubmitting(false) } of a call
CV_fail(call, message, received) ==
    /\ toasts' = Append(toasts, Toast("Submission Failed", Or(message, "Please try again.")))
    /\ cvInFlight' = cvInFlight \ {call}
    /\ cvSubmitting' = IF call.mounted THEN FALSE ELSE cvSubmitting
    /\ lastResponse' = received
    /\ UNCHANGED <<session, sideVars, tdDetached, testView, TVET_state, currentStep,
                   testResults, pc, submitLocals, reqs, submittingWrites, selectedJob,
                   cvData, jobs, formData>>

\* api.submitUserData returned to a call: toast, onCVSubmit(formData), which
\* is ADOFDashboard.handleCVSubmit.  Whatever step is shown gives way to the
\* test step; ADOFTestDisplay, unless it is mounted already, mounts and its
\* effect runs generateTest.
CV_submitUserDataReturns ==
    /\ role = "ADOF"
    /\ ~ADOF_crashed
    /\ \E call \in cvInFlight :
          \E result \in SubmitUserDataResults(scenario) :
              IF result = Null
              THEN CV_fail(call, NullTypeError, Returned(result))
              ELSE /\ cvData' = call.form
                   /\ currentStep' = "test"
                   /\ cvInFlight' = CV_unmounted(cvInFlight \ {call})
                   /\ cvSubmitting' = FALSE
                   /\ formData' = EmptyForm
                   /\ jobs' = JobsView("unmounted", <<>>)
                   /\ lastResponse' = Returned(result)
                   /\ LET shown == Append(toasts,
                                     Toast("CV Submitted Successfully!",
                                           Or(result.message,
                                              "Your information has been saved. Proceeding to assessment.")))
                      IN IF currentStep = "test"
                         THEN /\ toasts' = shown
                              /\ UNCHANGED <<reqs, isLoadingTest, pc>>
                         ELSE ADOF_generateTestStarts(shown, reqs)
                   /\ UNCHANGED <<session, sideVars, tdDetached, testData, selectedAnswers,
                                  currentQuestionIndex, isSubmitting, TVET_state,
                                  testResults, submitLocals, submittingWrites,
                                  selectedJob>>

CV_submitUserDataThrows ==
    /\ role = "ADOF"
    /\ ~ADOF_crashed
    /\ \E call \in cvInFlight :
          \E error \in ApiErrors(scenario, "submit-user-data") :
              CV_fail(call, error, Thrown(error))

\* "Back to Jobs" of CVCollection: setCurrentStep('jobs'); JobSelection mounts
\* and its effect fetches the jobs
CV_onBack ==
    /\ CV_mounted
    /\ currentStep' = "jobs"
    /\ cvInFlight' = CV_unmounted(cvInFlight)
    /\ cvSubmitting' = FALSE
    /\ formData' = EmptyForm
    /\ jobs' = JobsView("loading", <<>>)
    /\ reqs' = <<>>
    /\ toasts' = <<>>
    /\ submittingWrites' = <<>>
    /\ lastResponse' = Null
    /\ UNCHANGED <<session, sideVars, tdDetached, testView, TVET_state, testResults, pc,
                   submitLocals, selectedJob, cvData>>

\* "Go Back" of the failed-generation view and "Back to CV" of the test
\* view (disabled while submitting): setCurrentStep('cv'); the test view's
\* state is discarded and CVCollection mounts
ADOF_onBack ==
    /\ ADOF_mounted
    /\ ~isLoadingTest
    /\ testData = Null \/ ADOF_navigation
    /\ currentStep' = "cv"
    /\ testData' = Null
    /\ selectedAnswers' = <<>>
    /\ currentQuestionIndex' = 0
    /\ formData' = EmptyForm
    /\ cvSubmitting' = FALSE
    /\ reqs' = <<>>
    /\ toasts' = <<>>
    /\ submittingWrites' = <<>>
    /\ lastResponse' = Null
    /\ UNCHANGED <<session, sideVars, tdDetached, isSubmitting, isLoadingTest, TVET_state,
                   testResults, pc, submitLocals, selectedJob, cvData, jobs,
                   cvInFlight>>

\* "New Assessment" of the report: ADOFDashboard.handleBackToJobs
ADOF_handleBackToJobs ==
    /\ role = "ADOF"
    /\ currentStep = "report"
    /\ ~ADOF_crashed
    /\ currentStep' = "jobs"
    /\ selectedJob' = Null
    /\ cvData' = Null
    /\ testResults' = Null
    /\ jobs' = JobsView("loading", <<>>)
    /\ reqs' = <<>>
    /\ toasts' = <<>>
    /\ submittingWrites' = <<>>
    /\ lastResponse' = Null
    /\ UNCHANGED <<session, sideVars, tdDetached, testView, TVET_state, pc, submitLocals,
                   formData, cvSubmitting, cvInFlight>>

(***************************************************************************)
(* Specification                                                           *)
(***************************************************************************)
Next ==
    \/ Dashboard_handleGenerateTest
    \/ Dashboard_generateTestReturns
    \/ Dashboard_generateTestThrows
    \/ Dashboard_getMcqsReturns
    \/ Dashboard_getMcqsThrows
    \/ Dashboard_handleNewTest
    \/ TD_handleAnswerSelect
    \/ TD_handleNext
    \/ TD_handlePrevious
    \/ TD_handleSubmit
    \/ TD_getMcqsSettles
    \/ TD_submitAnswersReturns
    \/ TD_submitAnswersThrows
    \/ TD_hardcodedReturns
    \/ TD_hardcodedThrows
    \/ TD_getResultReturns
    \/ TD_getResultThrows
    \/ ADOF_generateTest
    \/ ADOF_generateTestReturns
    \/ ADOF_generateTestThrows
    \/ ADOF_handleAnswerSelect
    \/ ADOF_handleNext
    \/ ADOF_handlePrevious
    \/ ADOF_handleSubmit
    \/ ADOF_submitAnswersReturns
    \/ ADOF_submitAnswersThrows
    \/ ADOF_getResultReturns
    \/ ADOF_getResultThrows
    \/ TD_detachedSettles
    \/ Jobs_fetchReturns
    \/ Jobs_fetchThrows
    \/ Jobs_retry
    \/ ADOF_handleJobSelect
    \/ CV_handleInputChange
    \/ CV_handleAddSkill
    \/ CV_handleRemoveSkill
    \/ CV_handleSubmit
    \/ CV_submitUserDataReturns
    \/ CV_submitUserDataThrows
    \/ CV_onBack
    \/ ADOF_onBack
    \/ ADOF_handleBackToJobs

Spec == Init /\ [][Next]_vars

\* the steps in which an awaited request completes
Completions ==
    \/ Dashboard_generateTestReturns
    \/ Dashboard_generateTestThrows
    \/ Dashboard_getMcqsReturns
    \/ Dashboard_getMcqsThrows
    \/ TD_getMcqsSettles
    \/ TD_submitAnswersReturns
    \/ TD_submitAnswersThrows
    \/ TD_hardcodedReturns
    \/ TD_hardcodedThrows
    \/ TD_getResultReturns
    \/ TD_getResultThrows
    \/ TD_detachedSettles
    \/ ADOF_generateTestReturns
    \/ ADOF_generateTestThrows
    \/ ADOF_submitAnswersReturns
    \/ ADOF_submitAnswersThrows
    \/ ADOF_getResultReturns
    \/ ADOF_getResultThrows
    \/ Jobs_fetchReturns
    \/ Jobs_fetchThrows
    \/ CV_submitUserDataReturns
    \/ CV_submitUserDataThrows

\* every request eventually completes: fetch settles every promise awaited.
\* The sessions are those of the populations that vary the failures and
\* the handlers in flight.
FairInit == Init /\ scenario \in {"errors", "steps"}

FairSpec == FairInit /\ [][Next]_vars /\ WF_vars(Completions)

(***************************************************************************)
(* The api functions applied to the responses of the table                 *)
(***************************************************************************)
flowVars ==
    <<scenario, role, userId, testData, isGenerating, isLoadingTest, selectedAnswers,
      currentQuestionIndex, isSubmitting, isSubmitted, testResult, currentStep,
      testResults, pc, generated, requestBody, submitResponse, reqs, toasts,
      submittingWrites, lastResponse, selectedJob, cvData, jobs, formData,
      cvSubmitting, cvInFlight, tdDetached>>

ApiInit ==
    /\ FlowInit
    /\ scenario = "errors"
    /\ role = "TVET"
    /\ apiCall \in [op : ApiOperations, http : HttpResponses]
    /\ apiOutcome = Null
    /\ reportProps = Null
    /\ reportView = Null
    /\ AuthFormInit
    /\ authMode = "signin"
    /\ user = User(userId, "Ann", "ann@x.org", role)
    /\ ctxIsLoading = FALSE

\* the api function of the operation runs on the response
Api_call ==
    /\ apiCall # Null
    /\ apiOutcome = Null
    /\ apiOutcome' = ApiResult(apiCall.op, apiCall.http)
    /\ UNCHANGED <<flowVars, apiCall, reportProps, reportView, authVars>>

ApiNext == Api_call

ApiSpec == ApiInit /\ [][ApiNext]_vars

(***************************************************************************)
(* ADOFReports: the skill match of a CV against a job                      *)
(***************************************************************************)
\* the skill names of the model
SkillNames == {"React", "react", "React Native", "SQL"}

\* String.prototype.toLowerCase on the skill names
ToLowerCase(text) ==
    CASE text = "React" -> "react"
      [] text = "React Native" -> "react native"
      [] text = "SQL" -> "sql"
      [] OTHER -> text

\* text.includes(part) on the lower-cased skill names and ""
IncludesText(text, part) ==
    \/ part = ""
    \/ part = text
    \/ text = "react native" /\ part = "react"

\* cvData.skills: what handleAddSkill can build (non-blank, no entry twice)
CVSkillLists ==
    { list \in UNION { [1..k -> SkillNames] : k \in 0..MaxSkills } :
        \A i, j \in DOMAIN list : list[i] = list[j] => i = j }

\* selectedJob.skills: any list of strings the jobs endpoint returns
JobSkillLists == UNION { [1..k -> SkillNames \cup {""}] : k \in 0..MaxSkills }

\* ADOFReports: const skillMatch = cvData.skills.filter(...)
skillMatch(cvSkills, jobSkills) ==
    SelectSeq(cvSkills, LAMBDA skill :
        \E k \in DOMAIN jobSkills :
            \/ IncludesText(ToLowerCase(jobSkills[k]), ToLowerCase(skill))
            \/ IncludesText(ToLowerCase(skill), ToLowerCase(jobSkills[k])))

\* Math.round(num / den * 100) for num >= 0, den > 0: halves round up
MathRoundPercent(num, den) == (200 * num + den) \div (2 * den)

\* ADOFReports: const skillMatchPercentage = ...
skillMatchPercentage(cvSkills, jobSkills) ==
    IF Len(jobSkills) > 0
    THEN MathRoundPercent(Len(skillMatch(cvSkills, jobSkills)), Len(jobSkills))
    ELSE 0

ReportInit ==
    /\ FlowInit
    /\ scenario = "steps"
    /\ role = "ADOF"
    /\ apiCall = Null
    /\ apiOutcome = Null
    /\ reportProps \in [cvSkills : CVSkillLists, jobSkills : JobSkillLists]
    /\ reportView = Null
    /\ AuthFormInit
    /\ authMode = "signin"
    /\ user = User(userId, "Ann", "ann@x.org", role)
    /\ ctxIsLoading = FALSE

\* ADOFReports renders the skill match of its props
ADOFReports_render ==
    /\ reportProps # Null
    /\ reportView = Null
    /\ reportView' =
          [skillMatch |-> skillMatch(reportProps.cvSkills, reportProps.jobSkills),
           skillMatchPercentage |->
               skillMatchPercentage(reportProps.cvSkills, reportProps.jobSkills)]
    /\ UNCHANGED <<flowVars, apiVars, reportProps, authVars>>

ReportNext == ADOFReports_render

ReportSpec == ReportInit /\ [][ReportNext]_vars

(***************************************************************************)
(* Index and AuthForm: signing up and signing in                           *)
(***************************************************************************)
\* what api.signin returns on a 2xx response: JSON null, or an object with
\* or without a user record and with or without id, name and role
SigninResponses ==
    {Null} \cup
    [user : {Null, User("u7", "Bob", "bob@x.org", "ADOF"),
             User("u8", "Cy", "cy@x.org", "TVET"),
             User("u9", "Di", "di@x.org", Undefined)},
     id : {Undefined, "u1"},
     name : {Undefined, "Ann"},
     role : {Undefined, "", "ADOF", "TVET"}]

\* Index: what the page renders
Index_page ==
    IF ctxIsLoading THEN "loading"
    ELSE IF user # Null
    THEN IF user.role = "ADOF" THEN "ADOFDashboard" ELSE "Dashboard"
    ELSE "AuthForm"

\* Index re-renders for the session user u: the dashboard of u's role
\* mounts with u.id; no dashboard is mounted without a user
Index_render(u) ==
    /\ role' = IF u = Null THEN Undefined ELSE u.role
    /\ userId' = IF u = Null THEN Undefined ELSE u.id
    /\ jobs' = JobsView(IF u # Null /\ u.role = "ADOF" THEN "loading" ELSE "unmounted", <<>>)
    /\ UNCHANGED <<scenario, testView, TVET_state, currentStep, testResults, pc,
                   submitLocals, notices, lastResponse, selectedJob, cvData, formData,
                   cvSubmitting, cvInFlight, tdDetached, apiVars, reportProps, reportView>>

\* AuthContext: the initial load of the session ends
AuthContext_ready ==
    /\ ctxIsLoading
    /\ ctxIsLoading' = FALSE
    /\ Index_render(user)
    /\ UNCHANGED <<authMode, authFormData, authIsLoading, user, authPc, authLocals,
                   authReqs, authToasts>>

\* AuthContext.login: the session user after login(userData)
AuthContext_login(userData) == userData

\* AuthContext.logout, from the button of either dashboard; AuthForm mounts
AuthContext_logout ==
    /\ Index_page \in {"Dashboard", "ADOFDashboard"}
    /\ user' = Null
    /\ Index_render(Null)
    /\ authFormData' = EmptyAuthForm
    /\ authIsLoading' = FALSE
    /\ authPc' = "idle"
    /\ authLocals' = Null
    /\ authReqs' = <<>>
    /\ authToasts' = <<>>
    /\ UNCHANGED <<authMode, ctxIsLoading>>

\* Index.toggleAuthMode, from the link under the form
Index_toggleAuthMode ==
    /\ Index_page = "AuthForm"
    /\ authMode' = IF authMode = "signin" THEN "signup" ELSE "signin"
    /\ Index_render(user)
    /\ UNCHANGED <<authFormData, authIsLoading, user, ctxIsLoading, authPc, authLocals,
                   authReqs, authToasts>>

\* AuthForm.handleInputChange, from the inputs the mode shows
AuthForm_handleInputChange ==
    /\ Index_page = "AuthForm"
    /\ \E field \in IF authMode = "signup" THEN {"name", "email", "password", "role"}
                                            ELSE {"email", "password"} :
       \E value \in CASE field = "name" -> {"", "Ann"}
                      [] field = "email" -> {"", "ann@x.org"}
                      [] field = "password" -> {"", "pw"}
                      [] field = "role" -> {"TVET", "ADOF"} :
          /\ authFormData[field] # value
          /\ authFormData' = [authFormData EXCEPT ![field] = value]
    /\ Index_render(user)
    /\ UNCHANGED <<authMode, authIsLoading, user, ctxIsLoading, authPc, authLocals,
                   authReqs, authToasts>>

\* AuthForm.handleSubmit up to its await, or to its end when a field is empty
AuthForm_handleSubmit ==
    /\ Index_page = "AuthForm"
    /\ ~authIsLoading
    /\ authPc = "idle"
    /\ LET form == authFormData
           missing == IF authMode = "signup"
                      THEN form.name = "" \/ form.email = "" \/ form.password = ""
                               \/ form.role = ""
                      ELSE form.email = "" \/ form.password = ""
           body == IF authMode = "signup"
                   THEN [name |-> form.name, email |-> form.email,
                         password |-> form.password, role |-> form.role]
                   ELSE [email |-> form.email, password |-> form.password]
       IN  /\ authLocals' = [mode |-> authMode, formData |-> form, response |-> Null]
           /\ IF missing
              THEN /\ authToasts' = <<Toast("Error", "Please fill in all fields")>>
                   /\ authReqs' = <<>>
                   /\ authIsLoading' = FALSE
                   /\ authPc' = "idle"
              ELSE /\ authToasts' = <<>>
                   /\ authReqs' = <<[op |-> authMode, body |-> body]>>
                   /\ authIsLoading' = TRUE
                   /\ authPc' = authMode
    /\ Index_render(user)
    /\ UNCHANGED <<authMode, authFormData, user, ctxIsLoading>>

\* api.signup returned: the form is cleared and onToggleMode() called
AuthForm_signupReturns ==
    /\ authPc = "signup"
    /\ \E http \in HttpResponses : "value" \in DOMAIN ApiResult("signup", http)
    /\ authToasts' = <<Toast("Account created successfully!",
                             "Please sign in with your credentials.")>>
    /\ authFormData' = EmptyAuthForm
    /\ authMode' = IF authMode = "signin" THEN "signup" ELSE "signin"
    /\ authIsLoading' = FALSE
    /\ authPc' = "idle"
    /\ Index_render(user)
    /\ UNCHANGED <<user, ctxIsLoading, authLocals, authReqs>>

\* mutant: the role defaults to ADOF
userData_defaultADOF(response, form) ==
    IF response.user # Null
    THEN response.user
    ELSE User(Or(response.id, "<Date.now()>"), Or(response.name, "User"), form.email,
              Or(response.role, "ADOF"))

\* AuthForm.handleSubmit: const userData = response.user || { ... }
userData(response, form) ==
    IF response.user # Null
    THEN response.user
    ELSE User(Or(response.id, "<Date.now()>"), Or(response.name, "User"), form.email,
              Or(response.role, "TVET"))

\* api.signin returned an object: login(userData); Index shows the dashboard
AuthForm_signinReturns ==
    /\ authPc = "signin"
    /\ \E response \in SigninResponses \ {Null} :
          /\ user' = AuthContext_login(userData(response, authLocals.formData))
          /\ authLocals' = [authLocals EXCEPT !.response = response]
    /\ authToasts' = <<Toast("Welcome back!", "Successfully signed in.")>>
    /\ authIsLoading' = FALSE
    /\ authPc' = "idle"
    /\ Index_render(user')
    /\ UNCHANGED <<authMode, authFormData, ctxIsLoading, authReqs>>

\* the awaited call threw, or api.signin returned null and reading its user
\* threw: the catch block and the finally block
AuthForm_throws ==
    /\ authPc \in {"signup", "signin"}
    /\ \E message \in
            { ApiResult(authPc, http).error :
                http \in { h \in HttpResponses : "error" \in DOMAIN ApiResult(authPc, h) } }
            \cup (IF authPc = "signin"
                  THEN {"TypeError: Cannot read properties of null (reading 'user')"}
                  ELSE {}) :
          authToasts' = <<Toast("Error", message)>>
    /\ authIsLoading' = FALSE
    /\ authPc' = "idle"
    /\ Index_render(user)
    /\ UNCHANGED <<authMode, authFormData, user, ctxIsLoading, authLocals, authReqs>>

\* the page opens with no session user, the session loading or not
AuthInit ==
    /\ scenario = "errors"
    /\ role = Undefined
    /\ userId = Undefined
    /\ ViewsInit
    /\ apiCall = Null
    /\ apiOutcome = Null
    /\ reportProps = Null
    /\ reportView = Null
    /\ AuthFormInit
    /\ authMode = "signin"
    /\ user = Null
    /\ ctxIsLoading \in BOOLEAN

AuthNext ==
    \/ AuthContext_ready
    \/ AuthContext_logout
    \/ Index_toggleAuthMode
    \/ AuthForm_handleInputChange
    \/ AuthForm_handleSubmit
    \/ AuthForm_signupReturns
    \/ AuthForm_signinReturns
    \/ AuthForm_throws

AuthSpec == AuthInit /\ [][AuthNext]_vars

(***************************************************************************)
(* Vocabulary of the properties                                            *)
(***************************************************************************)
\* the submit_answers requests of the latest handler, in the order sent
SubmitRequests == SelectSeq(reqs, LAMBDA r : r.op = "submit_answers")

RequestsOf(op) == { i \in DOMAIN reqs : reqs[i].op = op }

\* the keys "1".."n"
KeysUpTo(n) == { ToString(k) : k \in 1..n }

\* the test view of either flow shows a test
TestShown == testData # Null /\ (TD_mounted \/ ADOF_mounted)

\* the first non-empty value of a record among the identifier fields, in
\* priority order; "" when there is none
IdPriority == <<"mcqs_id", "document_id", "documentId", "id", "_id">>

NonEmptyAt(t) == { i \in DOMAIN IdPriority : t[IdPriority[i]] \notin {Undefined, ""} }

FirstNonEmptyId(t) ==
    IF NonEmptyAt(t) = {} THEN ""
    ELSE t[IdPriority[CHOOSE i \in NonEmptyAt(t) : \A j \in NonEmptyAt(t) : i <= j]]

IncompleteToast ==
    Toast("Incomplete Test", "Please answer all questions before submitting.")

\* a user pressed the submit button of the test view
SubmitPressed == TD_handleSubmit \/ ADOF_handleSubmit

(***************************************************************************)
(* C1: every submit_answers request carries exactly one answer per         *)
(* question of the displayed test: keys "1".."N", every value a Likert     *)
(* label.                                                                  *)
(***************************************************************************)
C1_OneAnswerPerQuestion ==
    TestShown =>
        \A i \in RequestsOf("submit_answers") :
            /\ DOMAIN reqs[i].body.answers = KeysUpTo(QuestionCount)
            /\ \A k \in DOMAIN reqs[i].body.answers : reqs[i].body.answers[k] \in Likert

(***************************************************************************)
(* C2: a submit pressed while the number of answered questions differs     *)
(* from the number of questions issues no request, produces the            *)
(* "Incomplete Test" notification and never sets isSubmitting.             *)
(***************************************************************************)
C2_IncompleteRejectedLocally ==
    [][ (SubmitPressed /\ AnsweredCount # QuestionCount) =>
            /\ reqs' = <<>>
            /\ toasts' = <<IncompleteToast>>
            /\ submittingWrites' = <<>>
            /\ ~isSubmitting /\ ~isSubmitting'
            /\ pc' = "idle" ]_vars

C2_Witness ==
    /\ role = "ADOF"
    /\ TestShown
    /\ QuestionCount = 2
    /\ AnsweredCount = 1
    /\ toasts = <<IncompleteToast>>
    /\ reqs = <<>>

(***************************************************************************)
(* C3: the mcq_id of a submit_answers request is the first non-empty value *)
(* of the displayed record among mcqs_id, document_id, documentId, id,     *)
(* _id, in that order, and both test views resolve the same identifier     *)
(* for the same record.                                                    *)
(***************************************************************************)
C3_IdentifierPriority ==
    TestShown =>
        /\ getDocumentId(testData) = FirstNonEmptyId(testData)
        /\ ADOF_documentId(testData) = getDocumentId(testData)
        /\ \A i \in RequestsOf("submit_answers") :
              reqs[i].body.mcq_id = FirstNonEmptyId(testData)

C3_Witness ==
    /\ TestShown
    /\ testData.mcqs_id \in {Undefined, ""}
    /\ testData.document_id \notin {Undefined, ""}
    /\ testData.documentId \notin {Undefined, ""}
    /\ Len(SubmitRequests) > 0
    /\ SubmitRequests[1].body.mcq_id = testData.document_id

(***************************************************************************)
(* C4: a submit pressed with every question answered but no identifier     *)
(* field holding a non-empty value sends no request, notifies the user     *)
(* and leaves isSubmitting and isSubmitted false, the test still shown.    *)
(***************************************************************************)
NoIdentifier(t) == \A f \in IdFields : t[f] \in {Undefined, ""}

RegenerateToasts ==
    { Toast("Submission Failed", "Test document ID is required. Please generate a new test."),
      Toast("Submission Failed", "Test document ID is missing. Please generate a new test.") }

LogInAgainToast == Toast("Submission Failed", "User ID is required. Please log in again.")

SubmitWithoutIdentifier ==
    SubmitPressed /\ AnsweredCount = QuestionCount /\ NoIdentifier(testData)

RejectedBeforeAnyRequest ==
    /\ reqs' = <<>>
    /\ Len(toasts') = 1
    /\ ~isSubmitting'
    /\ ~isSubmitted'
    /\ pc' = "idle"
    /\ testData' = testData
    /\ selectedAnswers' = selectedAnswers
    /\ currentStep' = currentStep

\* the claim as stated: the notification always asks for a new test
C4_AsksForNewTest ==
    [][ SubmitWithoutIdentifier =>
            RejectedBeforeAnyRequest /\ toasts'[1] \in RegenerateToasts ]_vars

\* the claim as amended: the notification asks for a new test when the user
\* id is not blank; TestDisplay checks a blank user id first and then asks
\* the user to log in again
C4_MissingIdentifierRejected ==
    [][ SubmitWithoutIdentifier =>
            /\ RejectedBeforeAnyRequest
            /\ IF role = "TVET" /\ Trim(userId) = ""
               THEN toasts'[1] = LogInAgainToast
               ELSE toasts'[1] \in RegenerateToasts ]_vars

C4_Witness ==
    /\ role = "TVET"
    /\ TestShown
    /\ NoIdentifier(testData)
    /\ AnsweredCount = QuestionCount
    /\ QuestionCount > 0
    /\ userId = "u1"
    /\ toasts = <<Toast("Submission Failed",
                        "Test document ID is required. Please generate a new test.")>>
    /\ submittingWrites = <<TRUE, FALSE>>
    /\ reqs = <<>>
    /\ ~isSubmitting
    /\ ~isSubmitted

(***************************************************************************)
(* C5: once submit_answers succeeded, a failing get_result_by_id still     *)
(* shows a result: the raw submission response, and no failure is          *)
(* reported.                                                               *)
(***************************************************************************)
\* the result on screen: TestResults in the TVET flow, the report step in
\* the ADOF flow
ResultShown ==
    IF role = "TVET"
    THEN isSubmitted /\ testResult # Null
    ELSE currentStep = "report" /\ testResults # Null

DisplayedResult == IF role = "TVET" THEN testResult ELSE testResults

LastToast == toasts[Len(toasts)]

GetResultFails == TD_getResultThrows \/ ADOF_getResultThrows

C5_FallbackToSubmissionResponse ==
    [][ GetResultFails =>
            /\ ResultShown'
            /\ DisplayedResult' = submitResponse
            /\ LastToast'.title # "Submission Failed" ]_vars

(***************************************************************************)
(* C6: get_result_by_id is called only after submit_answers succeeded and  *)
(* only with the response's top-level result_id, else data.result_id; a    *)
(* response without result_id leads to no get_result_by_id call and is     *)
(* itself displayed.                                                       *)
(***************************************************************************)
ExpectedResultId(resp) ==
    IF resp.result_id \notin {Undefined, ""} THEN resp.result_id
    ELSE IF resp.data # Null THEN resp.data.result_id
    ELSE Undefined

IsSubmitResponse(r) == r # Null /\ "result_id" \in DOMAIN r

C6_ResultIdResolution ==
    /\ \A i \in RequestsOf("get_result_by_id") :
          /\ i > 1
          /\ reqs[i - 1].op = "submit_answers"
          /\ reqs[i].body.result_id \notin {Undefined, ""}
    /\ pc \in {"submit.getResult", "adof.getResult"} =>
          reqs[Len(reqs)].body.result_id = ExpectedResultId(submitResponse)
    /\ (IsSubmitResponse(lastResponse) /\ ExpectedResultId(lastResponse) \in {Undefined, ""}) =>
          /\ RequestsOf("get_result_by_id") = {}
          /\ ResultShown
          /\ DisplayedResult = lastResponse

(***************************************************************************)
(* C7: when generate_test succeeded and get_mcqs fails or returns no       *)
(* questions, the displayed test is exactly the generate response and the  *)
(* generation is reported as successful.                                   *)
(***************************************************************************)
NoFetchedQuestions(r) ==
    \/ "error" \in DOMAIN r
    \/ "questions" \notin DOMAIN r
    \/ r.questions = <<>>

\* handleGenerateTest resumed from its await of api.getMcqs and ended
GetMcqsSettled == pc = "getMcqs" /\ pc' = "idle"

C7_GeneratedTestRetained ==
    [][ (GetMcqsSettled /\ NoFetchedQuestions(lastResponse')) =>
            /\ testData' = generated
            /\ LastToast'.title = "Test Generated Successfully!"
            /\ \A i \in DOMAIN toasts' : toasts'[i].title # "Error"
            /\ ~isGenerating' ]_vars

C7_Witness ==
    /\ role = "TVET"
    /\ pc = "idle"
    /\ lastResponse # Null
    /\ "questions" \in DOMAIN lastResponse
    /\ lastResponse.message = "fetched"
    /\ Len(lastResponse.questions) = 0
    /\ lastResponse.mcqs_id = "f.mcqs_id"
    /\ testData # Null
    /\ testData.message = "generated"
    /\ testData.mcqs_id = "g.mcqs_id"
    /\ Len(testData.questions) = 1

(***************************************************************************)
(* C8: when get_mcqs returns questions, the displayed test takes the       *)
(* fetched questions and fields, and the identifier resolved for           *)
(* submission follows the fetched record.                                  *)
(***************************************************************************)
FetchedQuestions(r) == "questions" \in DOMAIN r /\ Len(r.questions) > 0

\* the fetched record's value of a field when it carries the field, the
\* generated record's otherwise
Overlaid(gen, m, f) == IF m[f] # Undefined THEN m[f] ELSE gen[f]

TakesFetchedFields(t, gen, m) ==
    /\ t.questions = m.questions
    /\ \A f \in {"message", "document_id", "documentId", "id", "_id"} :
          t[f] = Overlaid(gen, m, f)

C8_FetchedIdentifierWins ==
    [][ (GetMcqsSettled /\ FetchedQuestions(lastResponse')) =>
            /\ TakesFetchedFields(testData', generated, lastResponse')
            /\ FirstNonEmptyId(lastResponse') # "" =>
                  getDocumentId(testData') = FirstNonEmptyId(lastResponse') ]_vars

(***************************************************************************)
(* C9: the score-to-label translation is total: 1..5 map to the five       *)
(* labels in order, every other score to Neutral, in both flows.           *)
(***************************************************************************)
LabelTable == <<"Strongly Disagree", "Disagree", "Neutral", "Agree", "Strongly Agree">>

ExpectedLabel(score) == IF score \in DOMAIN LabelTable THEN LabelTable[score] ELSE "Neutral"

\* handleSubmit built the request body of a submission
RequestBuilt == requestBody = Null /\ requestBody' # Null

C9_ScoreTranslation ==
    [][ RequestBuilt =>
            \A i \in DOMAIN selectedAnswers :
                requestBody'.answers[ToString(i + 1)] = ExpectedLabel(selectedAnswers[i]) ]_vars

C9_Witness ==
    /\ role = "ADOF"
    /\ pc = "adof.submit"
    /\ selectedAnswers = (0 :> OutOfRange)
    /\ requestBody.answers["1"] = "Neutral"

(***************************************************************************)
(* C10: one submit action sends at most one submit_answers request.        *)
(***************************************************************************)
C10_NoAutomaticRetry == Len(SubmitRequests) <= 1

(***************************************************************************)
(* C11: at most one action is in flight per flow: no second test           *)
(* submission, test generation or CV submission is started while one is    *)
(* in flight.                                                              *)
(***************************************************************************)
SubmitPcs == {"submit.first", "submit.hardcoded", "submit.getMcqs", "submit.getResult",
              "adof.submit", "adof.getResult"}

\* handleSubmit calls of the test views that have not run to their end
SubmissionsInFlight == tdDetached + (IF pc \in SubmitPcs THEN 1 ELSE 0)

C11_OneInFlight ==
    /\ SubmissionsInFlight <= 1
    /\ Cardinality(cvInFlight) <= 1

(***************************************************************************)
(* C12: after a failed test submission (the identifier is missing, or a    *)
(* submit_answers call fails on the network, on a non-2xx status or on a   *)
(* malformed response) the test view is back in its pre-action state:      *)
(* isSubmitting and isSubmitted false, answer map and current index as     *)
(* they were, no result stored, submit enabled.                            *)
(***************************************************************************)
SubmitAnswersFails ==
    TD_submitAnswersThrows \/ TD_hardcodedThrows \/ ADOF_submitAnswersThrows

SubmitEnabled == IF role = "TVET" THEN TD_navigation ELSE ADOF_navigation

C12_FailureRestoresView ==
    [][ (SubmitWithoutIdentifier \/ SubmitAnswersFails) =>
            /\ ~isSubmitting'
            /\ ~isSubmitted'
            /\ selectedAnswers' = selectedAnswers
            /\ currentQuestionIndex' = currentQuestionIndex
            /\ DisplayedResult' = Null
            /\ SubmitEnabled' ]_vars

(***************************************************************************)
(* C13: for every API operation a non-2xx response produces an error whose *)
(* message is the JSON body's error field when present, otherwise its      *)
(* message field, and the raw body text when the body is not JSON.         *)
(***************************************************************************)
\* an api function ran on a non-2xx response
NonOkOutcome ==
    /\ apiCall # Null
    /\ apiOutcome # Null
    /\ apiCall.http # NetworkFailure
    /\ ~apiCall.http.ok

\* the body parses to a JSON object or array
ParsesToObject(text) == JSONParse(text) \notin {SyntaxError, Null}

C13_ErrorMessageFromBody ==
    NonOkOutcome =>
        LET body == apiCall.http.body
            errorData == JSONParse(body)
        IN /\ (errorData = SyntaxError /\ body # "") => apiOutcome = Thrown(body)
           /\ (ParsesToObject(body) /\ Truthy(errorData.error)) =>
                  apiOutcome = Thrown(errorData.error)
           /\ (ParsesToObject(body) /\ ~Truthy(errorData.error) /\ Truthy(errorData.message)) =>
                  apiOutcome = Thrown(errorData.message)

(***************************************************************************)
(* C14: when a non-2xx response of get_mcqs, submit_answers or             *)
(* get_result_by_id has a non-empty body without a non-empty error or      *)
(* message field, the error message is the body text; the built-in default *)
(* message is used only when the body is empty.                            *)
(***************************************************************************)
ParsingOperations == {"get_mcqs", "submit_answers", "get_result_by_id"}

DefaultErrorMessage(op) ==
    CASE op = "get_mcqs" -> "Failed to get MCQs"
      [] op = "submit_answers" -> "Answer submission failed"
      [] op = "get_result_by_id" -> "Failed to fetch result"

\* the body carries a non-empty error or message field
CarriesErrorOrMessage(text) ==
    /\ ParsesToObject(text)
    /\ Truthy(JSONParse(text).error) \/ Truthy(JSONParse(text).message)

C14_BodyTextBeforeDefault ==
    (NonOkOutcome /\ apiCall.op \in ParsingOperations) =>
        LET body == apiCall.http.body
        IN /\ (body # "" /\ ~CarriesErrorOrMessage(body)) => apiOutcome = Thrown(body)
           /\ apiOutcome = Thrown(DefaultErrorMessage(apiCall.op)) => body = ""

(***************************************************************************)
(* C15: a 2xx response whose body is not valid JSON makes get_mcqs,        *)
(* submit_answers and get_result_by_id raise 'Invalid response format from *)
(* server'; as stated, the triggering action then always fails: a failure  *)
(* notification with that message is shown, the action ends and no test or *)
(* result is stored.                                                       *)
(***************************************************************************)
InvalidFormat == "Invalid response format from server"

\* 2xx responses whose body is not valid JSON
MalformedResponses ==
    { http \in HttpResponses \ {NetworkFailure} :
        http.ok /\ JSONParse(http.body) = SyntaxError }

\* the three operations raise InvalidFormat on every malformed response
RaisesInvalidFormat ==
    \A op \in ParsingOperations : \A http \in MalformedResponses :
        ApiResult(op, http) = Thrown(InvalidFormat)

\* a suspended handler receives the error of a malformed response
MalformedReceived == pc # "idle" /\ lastResponse' = Thrown(InvalidFormat)

FailureNotified ==
    /\ toasts' = Append(toasts, Toast("Submission Failed", InvalidFormat))
    /\ pc' = "idle"
    /\ ~isSubmitting'
    /\ ~isSubmitted'
    /\ UNCHANGED <<testData, testResult, testResults, currentStep>>

AbsorbedByDashboard ==
    /\ testData' = generated
    /\ toasts' = Append(toasts, Toast("Test Generated Successfully!",
                                      "Your personalized test is ready."))
    /\ ~isGenerating'
    /\ pc' = "idle"

FollowedBySecondAttempt ==
    /\ pc' = "submit.hardcoded"
    /\ isSubmitting'
    /\ UNCHANGED <<toasts, testData, testResult, isSubmitted>>

SubmissionResponseShown ==
    /\ testResult' = submitResponse
    /\ isSubmitted'
    /\ ~isSubmitting'
    /\ pc' = "idle"
    /\ LastToast'.title = "Test Submitted Successfully!"
    /\ UNCHANGED testData

ResponseArrives == lastResponse' # Null

ClearedOnlyByCompletion ==
    /\ (isSubmitting /\ ~isSubmitting') => (ResponseArrives \/ Dashboard_handleNewTest)
    /\ (isGenerating /\ ~isGenerating') => ResponseArrives
    /\ (isLoadingTest /\ ~isLoadingTest') => ResponseArrives
    /\ (cvSubmitting /\ ~cvSubmitting') => (ResponseArrives \/ CV_onBack)

C17_StepInvariants ==
    /\ [](role = "ADOF" =>
            /\ currentStep \in {"cv", "test", "report"} => selectedJob # Null
            /\ currentStep \in {"test", "report"} => cvData # Null
            /\ currentStep = "report" => testResults # Null)
    /\ [][ ADOF_handleBackToJobs =>
              /\ currentStep' = "jobs"
              /\ selectedJob' = Null
              /\ cvData' = Null
              /\ testResults' = Null ]_vars

(***************************************************************************)
(* C18: a submit-user-data request is sent only for a form whose name,     *)
(* phone, experience and education are non-blank, whose email is non-blank *)
(* and contains '@' and which lists a skill; the step advances from cv to  *)
(* test only when submit-user-data returned; on a validation failure or a  *)
(* failed request the step stays cv, the form data is unchanged and a      *)
(* notification is shown.                                                  *)
(***************************************************************************)
NonBlank(text) == text \notin {"", " "}

CompleteForm(form) ==
    /\ NonBlank(form.name)
    /\ NonBlank(form.phone)
    /\ NonBlank(form.experience)
    /\ NonBlank(form.education)
    /\ NonBlank(form.email)
    /\ IncludesAt(form.email)
    /\ Len(form.skills) >= 1

RequiredTitles ==
    { "Name Required", "Valid Email Required", "Phone Required", "Experience Required",
      "Skills Required", "Education Required" }

\* submit-user-data returned a result to one of the calls in flight
SubmitUserDataSucceeds ==
    \E call \in cvInFlight :
        /\ call \notin cvInFlight'
        /\ cvData' = call.form
        /\ "value" \in DOMAIN lastResponse'
        /\ lastResponse'.value \in SubmitUserDataResults(scenario) \ {Null}

\* the request failed, or its result could not be read
SubmitUserDataFails ==
    \/ CV_submitUserDataThrows
    \/ CV_submitUserDataReturns /\ lastResponse' = Returned(Null)

C18_ValidatedCVSubmission ==
    /\ [](\A call \in cvInFlight : CompleteForm(call.form))
    /\ [][ /\ CV_handleSubmit =>
                IF CompleteForm(formData)
                THEN /\ Len(reqs') = 1
                     /\ reqs'[1].op = "submit-user-data"
                     /\ reqs'[1].body.name = formData.name
                     /\ reqs'[1].body.email = formData.email
                     /\ reqs'[1].body.skills = formData.skills
                     /\ reqs'[1].body.jobId = selectedJob.id
                ELSE /\ reqs' = <<>>
                     /\ Len(toasts') = 1
                     /\ toasts'[1].title \in RequiredTitles
                     /\ UNCHANGED <<currentStep, formData, cvData, cvInFlight>>
           /\ (currentStep = "cv" /\ currentStep' = "test") => SubmitUserDataSucceeds
           /\ (currentStep = "cv" /\ SubmitUserDataFails) =>
                /\ UNCHANGED <<currentStep, formData, cvData>>
                /\ Len(toasts') = Len(toasts) + 1
                /\ LastToast'.title = "Submission Failed" ]_vars

C18_Witness ==
    /\ role = "ADOF"
    /\ currentStep = "test"
    /\ pc = "adof.generate"
    /\ lastResponse = Returned([message |-> Undefined])
    /\ CompleteForm(cvData)
    /\ Len(reqs) = 2
    /\ reqs[1].op = "submit-user-data"
    /\ reqs[2].op = "generate_test"

(***************************************************************************)
(* C19: while a test is displayed, Next and Previous never change the      *)
(* answer map; selecting an option for the question on screen sets its     *)
(* entry and leaves every other entry as it was; no action removes an      *)
(* entry, so the number of answered questions never decreases.             *)
(***************************************************************************)
\* the step leaves the same test on display
TestStaysDisplayed == testData # Null /\ testData' = testData

Navigates == TD_handleNext \/ TD_handlePrevious \/ ADOF_handleNext \/ ADOF_handlePrevious

Selects == TD_handleAnswerSelect \/ ADOF_handleAnswerSelect

C19_AnswersAccumulate ==
    [][ TestStaysDisplayed =>
            /\ DOMAIN selectedAnswers \subseteq DOMAIN selectedAnswers'
            /\ Cardinality(DOMAIN selectedAnswers') >= AnsweredCount
            /\ \A i \in DOMAIN selectedAnswers :
                   i # currentQuestionIndex => selectedAnswers'[i] = selectedAnswers[i]
            /\ Navigates => selectedAnswers' = selectedAnswers
            /\ Selects =>
                   /\ DOMAIN selectedAnswers' = DOMAIN selectedAnswers \cup {currentQuestionIndex}
                   /\ selectedAnswers'[currentQuestionIndex] \in CurrentOptions
                   /\ currentQuestionIndex' = currentQuestionIndex
            /\ selectedAnswers' # selectedAnswers => Selects ]_vars

C19_Witness ==
    /\ testData # Null
    /\ QuestionCount = 2
    /\ DOMAIN selectedAnswers = {0, 1}
    /\ currentQuestionIndex = 0
    /\ selectedAnswers[0] # selectedAnswers[1]
    /\ pc = "idle"

(***************************************************************************)
(* C20: in both flows that acquire a test for display, a successful        *)
(* generate_test call is followed by one attempted get_mcqs call before    *)
(* the test is displayed, get_mcqs is not attempted while generate_test is *)
(* awaited, and a failed generate_test displays no test.                   *)
(***************************************************************************)
\* the step puts a test on display
TestBecomesDisplayed == testData = Null /\ testData' # Null

GenerateFails == Dashboard_generateTestThrows \/ ADOF_generateTestThrows

C20_GenerateThenFetch ==
    [][ /\ TestBecomesDisplayed =>
              \E i, j \in DOMAIN reqs' :
                  /\ i < j
                  /\ reqs'[i].op = "generate_test"
                  /\ reqs'[j].op = "get_mcqs"
                  /\ \A k \in DOMAIN reqs' : reqs'[k].op = "get_mcqs" => k = j
        /\ pc' \in {"generate", "adof.generate"} =>
              \A k \in DOMAIN reqs' : reqs'[k].op # "get_mcqs"
        /\ GenerateFails => (testData' = Null /\ pc' = "idle") ]_vars

(***************************************************************************)
(* C21: every submit_answers request carries, under key i+1, the label of  *)
(* the score the user most recently selected for question i of the         *)
(* displayed test, and carries no answer the user did not give.            *)
(***************************************************************************)
\* the step sends a submit_answers request
SubmitAnswersSent ==
    /\ Len(reqs') > 0
    /\ reqs' # reqs
    /\ reqs'[Len(reqs')].op = "submit_answers"

SentAnswers == reqs'[Len(reqs')].body.answers

C21_SentAnswersAreTheUsers ==
    [][ SubmitAnswersSent =>
            /\ DOMAIN SentAnswers = { ToString(i + 1) : i \in DOMAIN selectedAnswers }
            /\ \A i \in DOMAIN selectedAnswers :
                   SentAnswers[ToString(i + 1)] = ExpectedLabel(selectedAnswers[i]) ]_vars

(***************************************************************************)
(* C22: the ADOF step changes only along jobs->cv, cv->test, test->report, *)
(* cv->jobs, test->cv and report->jobs, each by its own cause; the step    *)
(* moves to test only from cv and to report only from test.                *)
(***************************************************************************)
StepTransitions ==
    { <<"jobs", "cv">>, <<"cv", "test">>, <<"test", "report">>,
      <<"cv", "jobs">>, <<"test", "cv">>, <<"report", "jobs">> }

C22_StepTransitions ==
    [][ (role = "ADOF" /\ currentStep' # currentStep) =>
            /\ <<currentStep, currentStep'>> \in StepTransitions
            /\ currentStep' = "cv" /\ currentStep = "jobs" => ADOF_handleJobSelect
            /\ currentStep' = "test" => SubmitUserDataSucceeds
            /\ currentStep' = "report" => testResults' # Null ]_vars

(***************************************************************************)
(* C23: whenever the ADOF step is test or report, the recorded CV data is  *)
(* the data submitted for the currently selected job: the submission whose *)
(* form is recorded was sent with the id of the selected job, and the      *)
(* selected job does not change while the step is test or report.          *)
(***************************************************************************)
\* the calls whose completion the step can be
CompletedCalls ==
    { call \in cvInFlight :
        /\ cvData' = call.form
        /\ cvInFlight' = CV_unmounted(cvInFlight \ {call}) }

C23_CVDataOfSelectedJob ==
    [][ role = "ADOF" =>
            /\ (SubmitUserDataSucceeds /\ currentStep' = "test") =>
                   /\ selectedJob' # Null
                   /\ \A call \in CompletedCalls : call.job.id = selectedJob'.id
            /\ (currentStep \in {"test", "report"} /\ currentStep' \in {"test", "report"}) =>
                   selectedJob' = selectedJob ]_vars

(***************************************************************************)
(* C24: while a test submission is in flight (isSubmitting is true) the    *)
(* answer map cannot be changed, in TestDisplay and in ADOFTestDisplay.    *)
(***************************************************************************)
C24_AnswersFrozenInFlight ==
    [][ (isSubmitting /\ isSubmitting') => selectedAnswers' = selectedAnswers ]_vars

(***************************************************************************)
(* C25: for every test on display the current question index designates an *)
(* existing question (0 <= index < N) and every key of the answer map lies *)
(* in 0..N-1, so an answer map of size N has exactly the keys 0..N-1.      *)
(***************************************************************************)
C25_IndexWithinTest ==
    TestShown =>
        /\ currentQuestionIndex \in 0..(QuestionCount - 1)
        /\ DOMAIN selectedAnswers \subseteq 0..(QuestionCount - 1)
        /\ AnsweredCount = QuestionCount => DOMAIN selectedAnswers = 0..(QuestionCount - 1)

(***************************************************************************)
(* C26: whenever TestDisplay is in the results view (isSubmitted and a     *)
(* result stored) the stored result contains the data record that the      *)
(* results view reads; isSubmitted is never true while no result is        *)
(* stored.                                                                 *)
(***************************************************************************)
C26_ResultsViewHasData ==
    role = "TVET" =>
        /\ isSubmitted => testResult # Null
        /\ (isSubmitted /\ testResult # Null) =>
               /\ testResult.data # Null
               /\ "percentage" \in DOMAIN testResult.data

(***************************************************************************)
(* C27: the skill-match percentage of the ADOF report is an integer        *)
(* between 0 and 100 for every CV skill list and every job skill list, and *)
(* it is 0 when the job lists no skills.                                   *)
(***************************************************************************)
C27_SkillMatchPercentage ==
    reportView # Null =>
        /\ reportView.skillMatchPercentage \in 0..100
        /\ Len(reportProps.jobSkills) = 0 => reportView.skillMatchPercentage = 0

(***************************************************************************)
(* C28: after any sequence of add-skill and remove-skill actions on the CV *)
(* form the skill list has no blank entry, no entry twice and only trimmed *)
(* entries; adding a blank or already-present skill leaves the list        *)
(* unchanged; removing a skill removes exactly that entry and keeps the    *)
(* order of the others.                                                    *)
(***************************************************************************)
\* the list without its i-th entry, the others in order
WithoutEntry(list, i) ==
    [k \in 1..(Len(list) - 1) |-> IF k < i THEN list[k] ELSE list[k + 1]]

C28_SkillListClean ==
    LET skills == formData.skills IN
    /\ \A i \in DOMAIN skills : skills[i] # "" /\ Trim(skills[i]) = skills[i]
    /\ \A i, j \in DOMAIN skills : skills[i] = skills[j] => i = j
    /\ \A newSkill \in SkillInputs(scenario) :
          (Trim(newSkill) = "" \/ Includes(skills, Trim(newSkill)))
              => handleAddSkill(skills, newSkill) = skills
    /\ \A i \in DOMAIN skills :
          handleRemoveSkill(skills, skills[i]) = WithoutEntry(skills, i)

\* two skills were added, the later one typed earlier with a leading blank
C28_Witness ==
    /\ CV_mounted
    /\ formData.skills = <<"sql", "tla">>

(***************************************************************************)
(* C29: a successful signup never signs the user in: it clears the form    *)
(* and switches the form to sign-in mode; a signup or sign-in attempt with *)
(* a required field empty sends no request; a failed attempt leaves the    *)
(* mode and the form data unchanged and the session user unset; in every   *)
(* case isLoading is false when the attempt ends.                          *)
(***************************************************************************)
\* a field the mode requires is empty
RequiredFieldEmpty ==
    \E field \in IF authMode = "signup" THEN {"name", "email", "password", "role"}
                                        ELSE {"email", "password"} :
        authFormData[field] = ""

\* the attempt ends in the error notification
AttemptFails ==
    /\ AuthForm_handleSubmit \/ AuthForm_throws
    /\ authPc' = "idle"

AttemptEnds ==
    /\ AuthForm_handleSubmit \/ AuthForm_signupReturns \/ AuthForm_signinReturns
           \/ AuthForm_throws
    /\ authPc' = "idle"

C29_SignupAndFailures ==
    [][ /\ AuthForm_signupReturns =>
               /\ user' = Null
               /\ authFormData' = EmptyAuthForm
               /\ authMode' = "signin"
        /\ (AuthForm_handleSubmit /\ RequiredFieldEmpty) => authReqs' = <<>>
        /\ AttemptFails =>
               /\ authMode' = authMode
               /\ authFormData' = authFormData
               /\ user' = Null
        /\ AttemptEnds => authIsLoading' = FALSE
      ]_vars

(***************************************************************************)
(* C30: after a successful sign-in the session user is the response's user *)
(* record when present, otherwise a record built from the response's id,   *)
(* name and role with the role defaulting to TVET; the index page shows    *)
(* the ADOF dashboard exactly when the session user's role is ADOF, the    *)
(* TVET dashboard for every other signed-in user, and the auth form        *)
(* exactly when no user is signed in.                                      *)
(***************************************************************************)
\* the response the latest sign-in received
SigninResponse == authLocals'.response

Present(value) == value \notin {Undefined, ""}

SessionUserFromResponse ==
    AuthForm_signinReturns =>
        IF SigninResponse.user # Null
        THEN user' = SigninResponse.user
        ELSE /\ user' # Null
             /\ Present(SigninResponse.id) => user'.id = SigninResponse.id
             /\ Present(SigninResponse.name) => user'.name = SigninResponse.name
             /\ user'.role = IF Present(SigninResponse.role) THEN SigninResponse.role
                                                             ELSE "TVET"

PageByUser ==
    /\ Index_page = "ADOFDashboard" <=> (user # Null /\ user.role = "ADOF")
    /\ Index_page = "Dashboard" <=> (user # Null /\ user.role # "ADOF")
    /\ Index_page = "AuthForm" <=> user = Null

C30_SessionUserAndPage ==
    /\ []PageByUser
    /\ [][SessionUserFromResponse]_vars

\* C30 as amended: the page follows the session user once the session has
\* finished loading; while it loads the page shows the loading indicator.
C30_SessionUserAndPageOnceLoaded ==
    /\ [](IF ctxIsLoading THEN Index_page = "loading" ELSE PageByUser)
    /\ [][SessionUserFromResponse]_vars

\* a sign-in whose response had neither a user record nor a role: the user
\* built from it has the role TVET and sees the TVET dashboard
C30_Witness ==
    /\ authLocals # Null
    /\ authLocals.response # Null
    /\ authLocals.response.user = Null
    /\ authLocals.response.role = Undefined
    /\ user # Null
    /\ user.role = "TVET"
    /\ Index_page = "Dashboard"

====
